---- MODULE Spec2Model ----
(***************************************************************************)
(* membase: tiered conversational memory.                                  *)
(*   SqliteMemory (memory/sqlite_memory.py)  the per-account sqlite store  *)
(*   Client       (storage/hub.py)           the single-worker upload queue*)
(*   LTMemory     (memory/lt_memory.py)      the consolidation scheduler   *)
(*   BufferedMemory (memory/buffered_memory.py)  the in-memory list       *)
(*                                                                         *)
(* One table per tier, kept as a sequence in rowid order.  A connection    *)
(* that has executed a DML statement holds the database write lock until   *)
(* it commits; the other connections read the last committed tables.       *)
(***************************************************************************)
EXTENDS Integers, Sequences, FiniteSets, TLC

VARIABLES
  db,         \* committed tables: tier -> sequence of rows, in rowid order
  wdb,        \* tables as seen by the connection holding the write lock
  wlock,      \* the process whose connection holds the write lock, or "none"
  clock,      \* CURRENT_TIMESTAMP, in seconds
  tie,        \* how this sqlite build orders rows of equal created_at
  autoUpload, \* SqliteMemory.auto_upload_to_hub
  pc,         \* position of every thread
  call,       \* the frame of the SqliteMemory.add call of every thread
  kb,         \* doc ids held by the knowledge base
  nextId,     \* source of fresh message ids (uuid4)
  queue,      \* Client.upload_queue
  inflight,   \* the task the upload worker has taken, or NoTask
  events,     \* tickets of the threading.Event objects that are set
  nextTask,   \* next upload ticket
  posts,      \* history: the POST attempts of the worker, in order
  handed,     \* history: rows handed to upload_hub
  assigned,   \* history: every <<tier, conv, memory_index, id>> an add has inserted
  sch,        \* locals of LTMemory._background_task
  stop,       \* LTMemory._stop_event
  sumlog,     \* history: the summarizer calls of the scheduler, in order
  nadd,       \* messages the foreground callers have passed to add
  ser,        \* the arguments of a call of a pure function (to_dict, upload_hub up to the put) and its results
  messages,   \* BufferedMemory._messages
  message_map,      \* BufferedMemory._message_map: message id -> position
  conversation_id,  \* BufferedMemory._conversation_id
  bcall,      \* the frame of the BufferedMemory.add_with_upload call
  preload_conversations,  \* LTMemory._preload_conversations, as the set of its keys
  load,       \* locals of the LTMemory.load_from_hub call of every thread
  gets        \* history: the get_conversation calls made to the hub, in order

vars == <<db, wdb, wlock, clock, tie, autoUpload, pc, call, kb, nextId, queue,
          inflight, events, nextTask, posts, handed, assigned, sch, stop, sumlog, nadd,
          ser, messages, message_map, conversation_id, bcall, preload_conversations,
          load, gets>>

storeVars == <<db, wdb, wlock>>
hubVars   == <<queue, inflight, events, nextTask, posts>>
schedVars == <<sch, stop, sumlog, nadd>>
bufVars   == <<messages, message_map, conversation_id, bcall>>
loadVars  == <<preload_conversations, load, gets>>

-----------------------------------------------------------------------------
(* Bounds *)

MaxClock == 1      \* seconds the clock may advance
MaxAdds  == 3      \* messages the foreground passes to add in the store runs
MaxConc  == 3      \* messages passed to add in the concurrent runs
MaxMsgId == 2      \* message ids the foreground callers of the store runs use
MaxTasks == 3      \* upload tickets handed out
MaxHub   == 2      \* messages passed to add in the hub runs
MaxNew   == 1      \* messages the foreground adds in the scheduler runs
MaxFail  == 1      \* summarizer calls that may fail in the scheduler runs
MaxRace  == 3      \* messages added by the two threads of the race runs
MaxRefill == 2     \* messages added after the delete in the runs with a delete
MaxBufId == 2      \* message ids the callers of the BufferedMemory use
MaxUuid  == 2      \* conversation ids generated by clear
MaxRecent == 3     \* largest recent_n passed to BufferedMemory.get
MaxRemote == 1     \* message strings the hub holds for a conversation
MaxOwn   == 1      \* messages the callers add themselves in the load runs

(* Program constants *)

stms_per_ltm == 16

Tiers == {"stm", "ltm", "profile"}

FgProcs == {"p1", "p2"}
Sched   == "sched"
Procs   == FgProcs \cup {Sched}

\* mutant of LtmConv: the LTM entries of every conversation share one id
LtmConvShared(c) == <<"membase_ltm_">>

\* Conversation ids are strings; a string is modelled by the sequence of its
\* parts, so that prefixing and startswith are sequence operations.
ConvA == <<"a">>
ConvB == <<"b">>
StoreConvs == {ConvA, ConvB}
membase_account == "acct"

LtmConv(c) == <<"membase_ltm_">> \o c
profile_conversation_id == <<"membase_profile_", membase_account>>

\* mutant of StartsWith: no conversation id is recognised as derived
StartsWithNever(c, prefix) == FALSE

StartsWith(c, prefix) == Len(c) >= 1 /\ c[1] = prefix

-----------------------------------------------------------------------------
(* Pure helpers over tables *)

\* the greatest element of a non-empty set of integers
SetMax(S) == CHOOSE x \in S : \A y \in S : x >= y

Reverse(s) == [i \in 1..Len(s) |-> s[Len(s) + 1 - i]]

Take(s, n) == IF n >= Len(s) THEN s ELSE SubSeq(s, 1, n)

Rng(s) == {s[i] : i \in 1..Len(s)}

RowsOf(tbl, conv) == SelectSeq(tbl, LAMBDA r : r.conv = conv)

\* table name chosen from the message type (every branch of the code maps
\* anything that is not ltm or profile to the stm table)
TableOf(type) == IF type = "ltm" THEN "ltm"
                 ELSE IF type = "profile" THEN "profile" ELSE "stm"

\* SELECT MAX(memory_index) FROM table WHERE conversation_id = ?   (None -> -1)
MaxIndex(tbl, conv) ==
  LET S == {tbl[i].idx : i \in {j \in 1..Len(tbl) : tbl[j].conv = conv}}
  IN  IF S = {} THEN -1 ELSE SetMax(S)

\* memory_index = (row[0] + 1) if row[0] is not None else 0
NextIndex(tbl, conv) ==
  LET m == MaxIndex(tbl, conv) IN IF m = -1 THEN 0 ELSE m + 1

\* INSERT OR REPLACE: id is the primary key, the new row gets the next rowid
InsertOrReplace(tbl, row) ==
  Append(SelectSeq(tbl, LAMBDA r : r.id # row.id), row)

\* ORDER BY created_at DESC.  SQL leaves the order of rows of equal
\* created_at open: "scan" keeps them in rowid order, "rscan" in reverse.
OrderByCreatedDesc(s, policy) ==
  LET \* row j comes before row i in the result
      Before(j, i) == \/ s[j].at > s[i].at
                      \/ /\ s[j].at = s[i].at
                         /\ IF policy = "scan" THEN j < i ELSE j > i
      order == SortSeq([i \in 1..Len(s) |-> i], Before)
  IN  [k \in 1..Len(s) |-> s[order[k]]]

NoLimit == -1

\* SqliteMemory.get(recent_n, type) without filter_func: the rows, oldest first
GetRows(tables, policy, conv, recent_n, type) ==
  LET rows    == OrderByCreatedDesc(RowsOf(tables[TableOf(type)], conv), policy)
      limited == IF recent_n = NoLimit THEN rows ELSE Take(rows, recent_n)
  IN  Reverse(limited)

\* SqliteMemory.size(type)
Size(tables, conv, type) == Len(RowsOf(tables[TableOf(type)], conv))

\* mutant of DeleteRows: the WHERE clause without the conversation_id
DeleteRowsAnyConv(tbl, conv, idxs) ==
  SelectSeq(tbl, LAMBDA r : r.idx \notin idxs)

\* DELETE FROM table WHERE conversation_id = ? AND memory_index = ?, for each index
DeleteRows(tbl, conv, idxs) ==
  SelectSeq(tbl, LAMBDA r : ~(r.conv = conv /\ r.idx \in idxs))

\* DELETE FROM table WHERE conversation_id = ?
\* mutant of ClearRows: the WHERE clause is dropped
ClearRowsAll(tbl, conv) == <<>>

ClearRows(tbl, conv) == SelectSeq(tbl, LAMBDA r : r.conv # conv)

\* UPDATE table SET upload_status=1 WHERE conversation_id=? AND memory_index=?
MarkUploaded(tbl, conv, idx) ==
  [i \in 1..Len(tbl) |->
     IF tbl[i].conv = conv /\ tbl[i].idx = idx THEN [tbl[i] EXCEPT !.st = 1] ELSE tbl[i]]

\* the tables a connection of process p reads
View(p) == IF wlock = p THEN wdb ELSE db

-----------------------------------------------------------------------------
(* SqliteMemory.add, one step per database statement *)

NoCall == [conv |-> <<>>, msgs |-> <<>>, i |-> 0, midx |-> -1, hub |-> <<>>,
           fromHub |-> FALSE, ret |-> "idle", k |-> 0, task |-> 0]

\* msg_id = conversation_id + "_" + str(memory_index), prefixed by the tier
HubMsgId(type, conv, idx) ==
  (IF type = "ltm" THEN <<"ltm_">>
   ELSE IF type = "profile" THEN <<"profile_">> ELSE <<>>) \o conv \o <<"_", idx>>

\* hub_memories[msg_id] = (msg_dict, memory_index, msg.type): a dict keeps the
\* position of a key that is assigned again
HubPut(hub, e) ==
  IF \E j \in 1..Len(hub) : hub[j].key = e.key
  THEN [j \in 1..Len(hub) |-> IF hub[j].key = e.key THEN e ELSE hub[j]]
  ELSE Append(hub, e)

\* entry of add: the message list, a fresh connection, an empty hub_memories
AddBegin(p, conv, msgs, fromHub, ret) ==
  /\ call' = [call EXCEPT ![p] = [NoCall EXCEPT !.conv = conv, !.msgs = msgs, !.i = 1,
                                                 !.k = 1, !.fromHub = fromHub,
                                                 !.ret = ret]]
  /\ pc' = [pc EXCEPT ![p] = IF msgs = <<>> THEN "commit" ELSE "select"]

\* a value that is not a Message object (a str, a dict, None inside a list)
NotAMessage == [id |-> 0, type |-> "str"]

\* isinstance(msg, Message)
IsMessage(m) == m.type \in Tiers

\* SELECT MAX(memory_index) on the call's own connection
AddSelect(p) ==
  /\ pc[p] = "select"
  /\ IsMessage(call[p].msgs[call[p].i])
  /\ LET f == call[p]
         m == f.msgs[f.i]
     IN  call' = [call EXCEPT ![p].midx = NextIndex(View(p)[TableOf(m.type)], f.conv)]
  /\ pc' = [pc EXCEPT ![p] = "insert"]
  /\ UNCHANGED <<ser, bufVars, loadVars, storeVars, clock, tie, autoUpload, kb, nextId, hubVars, handed,
                 assigned, schedVars>>

\* raise ValueError at the head of the loop: the call ends without commit and
\* without the upload loop; its connection stays open until the frame is released
AddRaise(p) ==
  /\ pc[p] = "select"
  /\ ~IsMessage(call[p].msgs[call[p].i])
  /\ pc' = [pc EXCEPT ![p] = "raised"]
  /\ UNCHANGED <<ser, bufVars, loadVars, storeVars, clock, tie, autoUpload, call, kb, nextId, hubVars, handed,
                 assigned, schedVars>>

\* the caller has handled the exception: the connection of the call is
\* released, which rolls its open transaction back
AddCaught(p) ==
  /\ pc[p] = "raised"
  /\ wdb' = IF wlock = p THEN db ELSE wdb
  /\ wlock' = IF wlock = p THEN "none" ELSE wlock
  /\ pc' = [pc EXCEPT ![p] = call[p].ret]
  /\ call' = [call EXCEPT ![p] = NoCall]
  /\ UNCHANGED <<ser, bufVars, loadVars, db, clock, tie, autoUpload, kb, nextId, hubVars, handed, assigned, schedVars>>

\* mutant of AfterInsert: the upload loop entered without conn.commit()
AfterInsertNoCommit(f) == IF f.i < Len(f.msgs) THEN "select" ELSE "upload"

\* where the loop of add goes after the insert of message i
AfterInsert(f) == IF f.i < Len(f.msgs) THEN "select" ELSE "commit"

\* INSERT OR REPLACE of message i with the index read before, the knowledge-base
\* document, the hub_memories entry.  The first insert opens the transaction.
AddInsert(p) ==
  /\ pc[p] = "insert"
  /\ wlock \in {"none", p}
  /\ LET f   == call[p]
         m   == f.msgs[f.i]
         t   == TableOf(m.type)
         row == [id |-> m.id, conv |-> f.conv, idx |-> f.midx, st |-> 0, at |-> clock]
         e   == [key |-> HubMsgId(m.type, f.conv, f.midx), id |-> m.id,
                 idx |-> f.midx, type |-> m.type]
     IN  /\ wdb' = [View(p) EXCEPT ![t] = InsertOrReplace(@, row)]
         /\ wlock' = p
         /\ kb' = kb \cup {m.id}
         /\ call' = [call EXCEPT ![p].hub = HubPut(f.hub, e), ![p].i = f.i + 1]
         /\ pc' = [pc EXCEPT ![p] = AfterInsert(f)]
  /\ UNCHANGED <<ser, bufVars, loadVars, db, clock, tie, autoUpload, nextId, hubVars, handed, assigned, schedVars>>

\* where add goes after conn.commit(): the upload loop, or back to the caller
AfterCommit(f, auto) == IF auto /\ ~f.fromHub THEN "upload" ELSE f.ret

\* conn.commit(); conn.close()
AddCommit(p) ==
  /\ pc[p] = "commit"
  /\ LET f == call[p] IN
       /\ db' = View(p)
       /\ wdb' = View(p)
       /\ wlock' = IF wlock = p THEN "none" ELSE wlock
       /\ assigned' = assigned \cup
             {<<TableOf(f.hub[j].type), f.conv, f.hub[j].idx, f.hub[j].id>> : j \in 1..Len(f.hub)}
       /\ pc' = [pc EXCEPT ![p] = AfterCommit(f, autoUpload)]
       /\ call' = [call EXCEPT ![p] = IF AfterCommit(f, autoUpload) = "upload"
                                      THEN f ELSE NoCall]
  /\ UNCHANGED <<ser, bufVars, loadVars, clock, tie, autoUpload, kb, nextId, hubVars, handed, schedVars>>

-----------------------------------------------------------------------------
(* Client: upload_hub and the upload worker *)

NoTask == [ev |-> 0, filename |-> <<>>, owner |-> "", by |-> "none"]

\* self.upload_queue.put((owner, bucket, filename, msg, event)), a new Event per call
Enqueue(p, filename) ==
  /\ nextTask <= MaxTasks
  /\ queue' = Append(queue, [ev |-> nextTask, filename |-> filename,
                             owner |-> membase_account, by |-> p])
  /\ nextTask' = nextTask + 1

\* mutant of WorkerGet: the task put last is taken first
WorkerGetLast ==
  /\ inflight = NoTask
  /\ queue # <<>>
  /\ inflight' = queue[Len(queue)]
  /\ queue' = SubSeq(queue, 1, Len(queue) - 1)
  /\ UNCHANGED <<ser, bufVars, loadVars, storeVars, clock, tie, autoUpload, pc, call, kb, nextId, events,
                 nextTask, posts, handed, assigned, schedVars>>

\* upload_task = self.upload_queue.get()
WorkerGet ==
  /\ inflight = NoTask
  /\ queue # <<>>
  /\ inflight' = Head(queue)
  /\ queue' = Tail(queue)
  /\ UNCHANGED <<ser, bufVars, loadVars, storeVars, clock, tie, autoUpload, pc, call, kb, nextId, events,
                 nextTask, posts, handed, assigned, schedVars>>

\* the Event objects that are set once the POST of task t has ended with `ok`:
\* event.set() is the last statement of the try block
EventsAfterPost(evs, t, ok) == IF ok THEN evs \cup {t.ev} ELSE evs

\* mutant of WorkerPost: a failed POST discards the tasks still queued
WorkerPostFlush(ok) ==
  /\ inflight # NoTask
  /\ posts' = Append(posts, [ev |-> inflight.ev, ok |-> ok])
  /\ events' = EventsAfterPost(events, inflight, ok)
  /\ inflight' = NoTask
  /\ queue' = IF ok THEN queue ELSE <<>>
  /\ UNCHANGED <<ser, bufVars, loadVars, storeVars, clock, tie, autoUpload, pc, call, kb, nextId,
                 nextTask, handed, assigned, schedVars>>

\* requests.post, raise_for_status, response.json, event.set; the except
\* branches log; finally task_done and sleep
WorkerPost(ok) ==
  /\ inflight # NoTask
  /\ posts' = Append(posts, [ev |-> inflight.ev, ok |-> ok])
  /\ events' = EventsAfterPost(events, inflight, ok)
  /\ inflight' = NoTask
  /\ UNCHANGED <<ser, bufVars, loadVars, storeVars, clock, tie, autoUpload, pc, call, kb, nextId, queue,
                 nextTask, handed, assigned, schedVars>>

\* the worker has finished its attempt of ticket ev
Attempted(ev) == \E j \in 1..Len(posts) : posts[j].ev = ev

\* where upload_hub goes after the put: event.wait() or straight back
AfterEnqueue(wait, waitPc, retPc) == IF wait THEN waitPc ELSE retPc

\* a direct call of Client.upload_hub(owner, filename, msg, wait=wait)
UploadHubCall(p, wait) ==
  /\ pc[p] = "idle"
  /\ Enqueue(p, <<"file">>)
  /\ call' = [call EXCEPT ![p].task = nextTask]
  /\ pc' = [pc EXCEPT ![p] = AfterEnqueue(wait, "uwait", "idle")]
  /\ UNCHANGED <<ser, bufVars, loadVars, storeVars, clock, tie, autoUpload, kb, nextId, inflight, events,
                 posts, handed, assigned, schedVars>>

\* event.wait() of a direct call returns
UploadHubReturn(p) ==
  /\ pc[p] = "uwait"
  /\ call[p].task \in events
  /\ pc' = [pc EXCEPT ![p] = "idle"]
  /\ call' = [call EXCEPT ![p] = NoCall]
  /\ UNCHANGED <<ser, bufVars, loadVars, storeVars, clock, tie, autoUpload, kb, nextId, hubVars, handed,
                 assigned, schedVars>>

-----------------------------------------------------------------------------
(* SqliteMemory.add, the upload loop after the commit *)

\* hub_client.upload_hub(self.membase_account, msg_id, msg_serialized) for the
\* k-th entry of hub_memories, on a second connection
AddUpload(p) ==
  /\ pc[p] = "upload"
  /\ LET f == call[p] IN
       IF f.k > Len(f.hub)
       THEN /\ pc' = [pc EXCEPT ![p] = "final"]
            /\ UNCHANGED <<ser, bufVars, loadVars, call, queue, nextTask, handed>>
       ELSE /\ Enqueue(p, f.hub[f.k].key)
            /\ call' = [call EXCEPT ![p].task = nextTask]
            /\ handed' = handed \cup {[ev |-> nextTask, tier |-> TableOf(f.hub[f.k].type),
                                       conv |-> f.conv, idx |-> f.hub[f.k].idx,
                                       id |-> f.hub[f.k].id]}
            /\ pc' = [pc EXCEPT ![p] = AfterEnqueue(TRUE, "wait", "mark")]
  /\ UNCHANGED <<ser, bufVars, loadVars, storeVars, clock, tie, autoUpload, kb, nextId, inflight, events,
                 posts, assigned, schedVars>>

\* event.wait() inside upload_hub returns, upload_hub returns "completed"
AddWait(p) ==
  /\ pc[p] = "wait"
  /\ call[p].task \in events
  /\ pc' = [pc EXCEPT ![p] = "mark"]
  /\ UNCHANGED <<ser, bufVars, loadVars, storeVars, clock, tie, autoUpload, call, kb, nextId, hubVars, handed,
                 assigned, schedVars>>

\* UPDATE table SET upload_status=1 for the entry just uploaded; the first
\* UPDATE opens the transaction of the second connection
AddMark(p) ==
  /\ pc[p] = "mark"
  /\ wlock \in {"none", p}
  /\ LET f == call[p]
         e == f.hub[f.k]
         t == TableOf(e.type)
     IN  /\ wdb' = [View(p) EXCEPT ![t] = MarkUploaded(@, f.conv, e.idx)]
         /\ wlock' = p
         /\ call' = [call EXCEPT ![p].k = f.k + 1]
         /\ pc' = [pc EXCEPT ![p] = IF f.k < Len(f.hub) THEN "upload" ELSE "final"]
  /\ UNCHANGED <<ser, bufVars, loadVars, db, clock, tie, autoUpload, kb, nextId, hubVars, handed, assigned,
                 schedVars>>

\* conn.commit(); conn.close() of the second connection, add returns
AddFinal(p) ==
  /\ pc[p] = "final"
  /\ db' = View(p)
  /\ wdb' = View(p)
  /\ wlock' = IF wlock = p THEN "none" ELSE wlock
  /\ pc' = [pc EXCEPT ![p] = call[p].ret]
  /\ call' = [call EXCEPT ![p] = NoCall]
  /\ UNCHANGED <<ser, bufVars, loadVars, clock, tie, autoUpload, kb, nextId, hubVars, handed, assigned, schedVars>>

-----------------------------------------------------------------------------
(* SqliteMemory.delete, SqliteMemory.clear: one transaction each *)

\* the tables after delete(memory_indexes, type) of the store of conv
DeleteResult(tables, conv, idxs, type) ==
  [tables EXCEPT ![TableOf(type)] = DeleteRows(@, conv, idxs)]

Delete(p, conv, idxs, type) ==
  /\ pc[p] = "idle"
  /\ wlock = "none"
  /\ db' = DeleteResult(db, conv, idxs, type)
  /\ wdb' = db'
  /\ UNCHANGED <<ser, bufVars, loadVars, wlock, clock, tie, autoUpload, pc, call, kb, nextId, hubVars, handed,
                 assigned, schedVars>>

NoType == "None"

ClearTables(tables, conv, type) ==
  IF type = NoType
  THEN [t \in Tiers |-> ClearRows(tables[t], conv)]
  ELSE [tables EXCEPT ![TableOf(type)] = ClearRows(@, conv)]

Clear(p, conv, type) ==
  /\ pc[p] = "idle"
  /\ wlock = "none"
  /\ db' = ClearTables(db, conv, type)
  /\ wdb' = db'
  /\ UNCHANGED <<ser, bufVars, loadVars, wlock, clock, tie, autoUpload, pc, call, kb, nextId, hubVars, handed,
                 assigned, schedVars>>

\* some row carries the current second as its created_at
StampedAt(tbl, now) == \E i \in 1..Len(tbl) : tbl[i].at = now

StampedNow == \E t \in Tiers : StampedAt(db[t], clock) \/ StampedAt(wdb[t], clock)

\* wall-clock time passes: the next insert gets a later created_at (seconds in
\* which no row is inserted are not counted)
SecondPasses ==
  /\ clock < MaxClock
  /\ StampedNow
  /\ clock' = clock + 1
  /\ UNCHANGED <<ser, bufVars, loadVars, storeVars, tie, autoUpload, pc, call, kb, nextId, hubVars, handed,
                 assigned, schedVars>>

-----------------------------------------------------------------------------
(* Initial state: an empty database, the worker and the callers idle *)

TiePolicies == {"scan", "rscan"}

\* the locals of one pass of the loop of _background_task; id 0 stands for None
NoSch == [convs |-> {}, conv |-> <<>>, latest |-> -1, last |-> -1, prev |-> 0,
          due |-> FALSE, start |-> 0, batch |-> <<>>, called |-> FALSE]

\* no Message is being serialized and no bucket chosen
NoSer == [step |-> "off"]

\* the frame of a thread that is not inside add_with_upload
NoBCall == [msgs |-> <<>>, k |-> 0, upload |-> FALSE, task |-> 0]

\* BufferedMemory.__init__: self._messages = [], self._message_map = {}
InitBuffered ==
  /\ messages = <<>>
  /\ message_map = [i \in {} |-> 0]
  /\ conversation_id = ConvA
  /\ bcall = NoBCall

\* the locals of a thread that is not inside load_from_hub
NoLoad == [conv |-> <<>>, rest |-> <<>>]

\* LTMemory.__init__: self._preload_conversations = {}
InitLoaded ==
  /\ preload_conversations = {}
  /\ load = [p \in Procs |-> NoLoad]
  /\ gets = <<>>

InitCommon ==
  /\ InitBuffered
  /\ InitLoaded
  /\ db = [t \in Tiers |-> <<>>]
  /\ wdb = db
  /\ wlock = "none"
  /\ clock = 0
  /\ call = [p \in Procs |-> NoCall]
  /\ kb = {}
  /\ nextId = 1
  /\ queue = <<>>
  /\ inflight = NoTask
  /\ events = {}
  /\ nextTask = 1
  /\ posts = <<>>
  /\ handed = {}
  /\ assigned = {}
  /\ sch = NoSch
  /\ stop = FALSE
  /\ sumlog = <<>>
  /\ nadd = 0

-----------------------------------------------------------------------------
(* Spec: one foreground thread using a SqliteMemory per conversation *)

\* the Message objects of the caller: id and tier classification
MsgType(id) == IF id % 3 = 0 THEN "ltm" ELSE "stm"
Msg(id) == [id |-> id, type |-> MsgType(id)]
MsgIds == 1..MaxMsgId
MsgLists == {<<Msg(a)>> : a \in MsgIds} \cup {<<Msg(a), Msg(b)>> : a, b \in MsgIds}
StoreTypes == {"stm", "ltm"}

Init ==
  /\ InitCommon
  /\ ser = NoSer
  /\ tie \in TiePolicies
  /\ autoUpload = FALSE
  /\ pc = [p \in Procs |-> IF p = "p1" THEN "idle" ELSE "off"]

\* memory.add(msgs) with messages the caller holds
FgAdd(p) ==
  /\ pc[p] = "idle"
  /\ \E conv \in StoreConvs, msgs \in MsgLists :
       /\ nadd + Len(msgs) <= MaxAdds
       /\ nadd' = nadd + Len(msgs)
       /\ AddBegin(p, conv, msgs, FALSE, "idle")
  /\ UNCHANGED <<ser, bufVars, loadVars, storeVars, clock, tie, autoUpload, kb, nextId, hubVars, handed,
                 assigned, sch, stop, sumlog>>

\* memory.delete(indexes, type)
FgDelete(p) ==
  \E conv \in StoreConvs, type \in StoreTypes :
    \E idxs \in SUBSET (0..(MaxIndex(db[TableOf(type)], conv) + 1)) :
      /\ idxs # {}
      /\ Cardinality(idxs) <= 2
      /\ Delete(p, conv, idxs, type)

\* memory.clear(type)
FgClear(p) ==
  \E conv \in StoreConvs, type \in StoreTypes \cup {NoType} : Clear(p, conv, type)

Next ==
  \/ FgAdd("p1")
  \/ AddSelect("p1")
  \/ AddInsert("p1")
  \/ AddCommit("p1")
  \/ FgDelete("p1")
  \/ FgClear("p1")
  \/ SecondPasses

Spec == Init /\ [][Next]_vars

-----------------------------------------------------------------------------
(* AddOnlySpec: one foreground thread whose only calls are add calls, with    *)
(* messages it holds, so that a message may be added again                    *)

NextAddOnly ==
  \/ FgAdd("p1")
  \/ AddSelect("p1")
  \/ AddInsert("p1")
  \/ AddCommit("p1")
  \/ SecondPasses

AddOnlySpec == Init /\ [][NextAddOnly]_vars

-----------------------------------------------------------------------------
(* ConcSpec: two foreground threads adding new messages concurrently *)

\* n new Message objects of one type, with fresh uuid4 ids
NewMsgs(first, n, type) == [j \in 1..n |-> [id |-> first + j - 1, type |-> type]]

InitConc ==
  /\ InitCommon
  /\ ser = NoSer
  /\ tie \in TiePolicies
  /\ autoUpload = FALSE
  /\ pc = [p \in Procs |-> IF p \in FgProcs THEN "idle" ELSE "off"]

\* memory.add(msgs) with new messages
FgAddNew(p, convs, types, lens, max) ==
  /\ pc[p] = "idle"
  /\ \E conv \in convs, n \in lens, type \in types :
       /\ nadd + n <= max
       /\ nadd' = nadd + n
       /\ nextId' = nextId + n
       /\ AddBegin(p, conv, NewMsgs(nextId, n, type), FALSE, "idle")
  /\ UNCHANGED <<ser, bufVars, loadVars, storeVars, clock, tie, autoUpload, kb, hubVars, handed,
                 assigned, sch, stop, sumlog>>

\* the lists of n new messages with one non-Message value put in at any place
BadLists(first, n, type) ==
  LET ms == NewMsgs(first, n, type) IN
  {SubSeq(ms, 1, k) \o <<NotAMessage>> \o SubSeq(ms, k + 1, n) : k \in 0..n}

\* memory.add(msgs) where one element of msgs is not a Message
FgAddBad(p, convs, types, lens, max) ==
  /\ pc[p] = "idle"
  /\ \E conv \in convs, n \in lens, type \in types :
       /\ nadd + n + 1 <= max
       /\ nadd' = nadd + n + 1
       /\ nextId' = nextId + n
       /\ \E msgs \in BadLists(nextId, n, type) : AddBegin(p, conv, msgs, FALSE, "idle")
  /\ UNCHANGED <<ser, bufVars, loadVars, storeVars, clock, tie, autoUpload, kb, hubVars, handed,
                 assigned, sch, stop, sumlog>>

NextConc ==
  \/ \E p \in FgProcs : FgAddNew(p, StoreConvs, StoreTypes, 1..2, MaxConc)
  \/ \E p \in FgProcs : AddSelect(p)
  \/ \E p \in FgProcs : AddInsert(p)
  \/ \E p \in FgProcs : AddCommit(p)
  \/ SecondPasses

ConcSpec == InitConc /\ [][NextConc]_vars

-----------------------------------------------------------------------------
(* ClearSpec: one foreground thread adding new messages of the three tiers to *)
(* two conversations and clearing them                                        *)

InitClear ==
  /\ InitCommon
  /\ ser = NoSer
  /\ tie = "scan"
  /\ autoUpload = FALSE
  /\ pc = [p \in Procs |-> IF p = "p1" THEN "idle" ELSE "off"]

\* memory.clear(type) with type None, "stm", "ltm" or "profile"
FgClearTier(p) ==
  \E conv \in StoreConvs, type \in Tiers \cup {NoType} : Clear(p, conv, type)

NextClear ==
  \/ FgAddNew("p1", StoreConvs, Tiers, {1}, MaxAdds)
  \/ AddSelect("p1")
  \/ AddInsert("p1")
  \/ AddCommit("p1")
  \/ FgClearTier("p1")

ClearSpec == InitClear /\ [][NextClear]_vars

-----------------------------------------------------------------------------
(* HubSpec: two foreground threads, sync-on-write enabled, the upload worker *)

\* (no action of this specification reads the tables in created_at order)
InitHub ==
  /\ InitCommon
  /\ ser = NoSer
  /\ tie = "scan"
  /\ autoUpload = TRUE
  /\ pc = [p \in Procs |-> IF p \in FgProcs THEN "idle" ELSE "off"]

NextHub ==
  \/ \E p \in FgProcs : FgAddNew(p, {ConvA}, StoreTypes, 1..2, MaxHub)
  \/ \E p \in FgProcs : AddSelect(p)
  \/ \E p \in FgProcs : AddInsert(p)
  \/ \E p \in FgProcs : AddCommit(p)
  \/ \E p \in FgProcs : AddUpload(p)
  \/ \E p \in FgProcs : AddWait(p)
  \/ \E p \in FgProcs : AddMark(p)
  \/ \E p \in FgProcs : AddFinal(p)
  \/ \E p \in FgProcs, wait \in BOOLEAN : UploadHubCall(p, wait)
  \/ \E p \in FgProcs : UploadHubReturn(p)
  \/ WorkerGet
  \/ \E ok \in BOOLEAN : WorkerPost(ok)

HubSpec == InitHub /\ [][NextHub]_vars

-----------------------------------------------------------------------------
(* UploadIdSpec: one foreground thread, sync-on-write enabled: add calls of   *)
(* new stm messages and delete calls, one after the other                     *)

InitUploadId ==
  /\ InitCommon
  /\ ser = NoSer
  /\ tie = "scan"
  /\ autoUpload = TRUE
  /\ pc = [p \in Procs |-> IF p = "p1" THEN "idle" ELSE "off"]

NextUploadId ==
  \/ FgAddNew("p1", StoreConvs, {"stm"}, {1}, MaxHub)
  \/ AddSelect("p1")
  \/ AddInsert("p1")
  \/ AddCommit("p1")
  \/ AddUpload("p1")
  \/ AddWait("p1")
  \/ AddMark("p1")
  \/ AddFinal("p1")
  \/ FgDelete("p1")
  \/ WorkerGet
  \/ \E ok \in BOOLEAN : WorkerPost(ok)

UploadIdSpec == InitUploadId /\ [][NextUploadId]_vars

-----------------------------------------------------------------------------
(* BadAddSpec: the hub runs with add calls that are handed a non-Message value *)

NextBadAdd ==
  \/ \E p \in FgProcs : FgAddBad(p, {ConvA}, StoreTypes, 0..1, MaxHub)
  \/ \E p \in FgProcs : AddRaise(p)
  \/ \E p \in FgProcs : AddCaught(p)
  \/ NextHub

BadAddSpec == InitHub /\ [][NextBadAdd]_vars

-----------------------------------------------------------------------------
(* DrainSpec: direct calls of upload_hub and the upload thread, which is a    *)
(* daemon thread in a `while True` loop: it takes the next task whenever there *)
(* is one, and the POST of a task taken ends, with a response or an exception *)

NextDrain ==
  \/ \E p \in FgProcs, wait \in BOOLEAN : UploadHubCall(p, wait)
  \/ \E p \in FgProcs : UploadHubReturn(p)
  \/ WorkerGet
  \/ \E ok \in BOOLEAN : WorkerPost(ok)

DrainSpec ==
  /\ InitHub
  /\ [][NextDrain]_vars
  /\ WF_vars(WorkerGet)
  /\ WF_vars(\E ok \in BOOLEAN : WorkerPost(ok))

-----------------------------------------------------------------------------
(* LTMemory._background_task, one step per store access or summarizer call *)

\* get_all_conversations(): the conversation ids the store holds, derived
\* ltm and profile ids included
ListConversations(tables) ==
  UNION {{tables[t][i].conv : i \in 1..Len(tables[t])} : t \in Tiers}

\* memory_index of the only entry of a get(recent_n=1) result, else -1
IndexOfFirst(rows) == IF rows # <<>> THEN rows[1].idx ELSE -1

\* id of the only entry of a get(recent_n=1) result, else None
IdOfFirst(rows) == IF rows # <<>> THEN rows[1].id ELSE 0

\* mutant of Due: the trigger fires when the 16th message of a window is in
DueAtBoundary(latest, last) == ((latest + 1) \div stms_per_ltm) > (last + 1)

\* if latest_stm_index // stms_per_ltm > (last_ltm_index+1)
Due(latest, last) == (latest \div stms_per_ltm) > (last + 1)

\* mutant of StartIndex: the window does not move with the LTM cursor
StartIndexZero(last) == 0

\* start_index = (last_ltm_index + 1) * stms_per_ltm
StartIndex(last) == (last + 1) * stms_per_ltm

\* mutant of StmBatch: the scan has no filter
StmBatchAll(tables, policy, conv, start) == GetRows(tables, policy, conv, NoLimit, "stm")

\* memory.get(conv_id, type='stm', filter_func=start_index <= memory_index <= end_index)
StmBatch(tables, policy, conv, start) ==
  SelectSeq(GetRows(tables, policy, conv, NoLimit, "stm"),
            LAMBDA r : start <= r.idx /\ r.idx <= start + stms_per_ltm - 1)

\* mutant of SummaryMsgs: a failed summarization still stores an entry
SummaryMsgsAlways(ok, id, type) == <<[id |-> id, type |-> type]>>

\* what llm_summarize_ltm hands to memory.add: the new Message, or None (which
\* add returns on without storing anything) when the model call failed
SummaryMsgs(ok, id, type) == IF ok THEN <<[id |-> id, type |-> type]>> ELSE <<>>

\* while not self._stop_event.is_set(): for conv_id in self.get_all_conversations()
SchedLoop ==
  /\ pc[Sched] = "s_loop"
  /\ IF stop
     THEN pc' = [pc EXCEPT ![Sched] = "s_done"] /\ UNCHANGED sch
     ELSE /\ sch' = [NoSch EXCEPT !.convs = ListConversations(db)]
          /\ pc' = [pc EXCEPT ![Sched] = "s_next"]
  /\ UNCHANGED <<ser, bufVars, loadVars, storeVars, clock, tie, autoUpload, call, kb, nextId, hubVars, handed,
                 assigned, stop, sumlog, nadd>>

\* next conv_id of the for loop; derived conversations are skipped
SchedNext ==
  /\ pc[Sched] = "s_next"
  /\ IF sch.convs = {}
     THEN pc' = [pc EXCEPT ![Sched] = "s_wait"] /\ UNCHANGED sch
     ELSE \E c \in sch.convs :
            IF StartsWith(c, "membase_ltm_") \/ StartsWith(c, "membase_profile_")
            THEN /\ sch' = [sch EXCEPT !.convs = @ \ {c}]
                 /\ UNCHANGED pc
            ELSE /\ sch' = [sch EXCEPT !.convs = @ \ {c}, !.conv = c, !.due = FALSE,
                                       !.called = FALSE]
                 /\ pc' = [pc EXCEPT ![Sched] = "s_stm"]
  /\ UNCHANGED <<ser, bufVars, loadVars, storeVars, clock, tie, autoUpload, call, kb, nextId, hubVars, handed,
                 assigned, stop, sumlog, nadd>>

\* latest_stm_list = memory.get(conv_id, recent_n=1, type='stm')
SchedReadStm ==
  /\ pc[Sched] = "s_stm"
  /\ sch' = [sch EXCEPT !.latest = IndexOfFirst(GetRows(db, tie, sch.conv, 1, "stm"))]
  /\ pc' = [pc EXCEPT ![Sched] = "s_ltm"]
  /\ UNCHANGED <<ser, bufVars, loadVars, storeVars, clock, tie, autoUpload, call, kb, nextId, hubVars, handed,
                 assigned, stop, sumlog, nadd>>

\* ltm_list = memory.get(ltm_conv_id, recent_n=1, type='ltm'), the trigger
SchedReadLtm ==
  /\ pc[Sched] = "s_ltm"
  /\ LET ltm_list == GetRows(db, tie, LtmConv(sch.conv), 1, "ltm")
         last     == IndexOfFirst(ltm_list)
     IN  /\ sch' = [sch EXCEPT !.last = last, !.prev = IdOfFirst(ltm_list),
                               !.due = Due(sch.latest, last),
                               !.start = StartIndex(last)]
         /\ pc' = [pc EXCEPT ![Sched] = IF Due(sch.latest, last) THEN "s_fetch" ELSE "s_next"]
  /\ UNCHANGED <<ser, bufVars, loadVars, storeVars, clock, tie, autoUpload, call, kb, nextId, hubVars, handed,
                 assigned, stop, sumlog, nadd>>

\* stm_list = memory.get(... filter_func ...); if len(stm_list) < stms_per_ltm: continue
SchedFetch ==
  /\ pc[Sched] = "s_fetch"
  /\ LET stm_list == StmBatch(db, tie, sch.conv, sch.start) IN
       /\ sch' = [sch EXCEPT !.batch = [i \in 1..Len(stm_list) |-> stm_list[i].idx]]
       /\ pc' = [pc EXCEPT ![Sched] = IF Len(stm_list) < stms_per_ltm
                                      THEN "s_next" ELSE "s_sumltm"]
  /\ UNCHANGED <<ser, bufVars, loadVars, storeVars, clock, tie, autoUpload, call, kb, nextId, hubVars, handed,
                 assigned, stop, sumlog, nadd>>

Failures == Cardinality({j \in 1..Len(sumlog) : ~sumlog[j].ok})

\* new_ltm = self.llm_summarize_ltm(stm_list, prev_ltm); memory.add(ltm_conv_id, new_ltm)
SchedSumLtm(ok) ==
  /\ pc[Sched] = "s_sumltm"
  /\ ok \/ Failures < MaxFail
  /\ sumlog' = Append(sumlog, [kind |-> "ltm", conv |-> sch.conv, start |-> sch.start,
                               prev |-> sch.prev, ok |-> ok, id |-> IF ok THEN nextId ELSE 0])
  /\ sch' = [sch EXCEPT !.called = TRUE]
  /\ nextId' = IF ok THEN nextId + 1 ELSE nextId
  /\ IF SummaryMsgs(ok, nextId, "ltm") = <<>>
     THEN pc' = [pc EXCEPT ![Sched] = "s_prof"] /\ UNCHANGED call
     ELSE AddBegin(Sched, LtmConv(sch.conv), SummaryMsgs(ok, nextId, "ltm"), FALSE, "s_prof")
  /\ UNCHANGED <<ser, bufVars, loadVars, storeVars, clock, tie, autoUpload, kb, hubVars, handed, assigned, stop, nadd>>

\* prev_profile_list = memory.get(self._profile_conversation_id, recent_n=1, type='profile')
SchedReadProfile ==
  /\ pc[Sched] = "s_prof"
  /\ sch' = [sch EXCEPT !.prev = IdOfFirst(GetRows(db, tie, profile_conversation_id, 1, "profile"))]
  /\ pc' = [pc EXCEPT ![Sched] = "s_sumprof"]
  /\ UNCHANGED <<ser, bufVars, loadVars, storeVars, clock, tie, autoUpload, call, kb, nextId, hubVars, handed,
                 assigned, stop, sumlog, nadd>>

\* new_profile = self.llm_summarize_profile(stm_list, prev_profile), which has
\* no try/except: a failed model call ends the thread; memory.add(profile id, new_profile)
SchedSumProfile(ok) ==
  /\ pc[Sched] = "s_sumprof"
  /\ ok \/ Failures < MaxFail
  /\ sumlog' = Append(sumlog, [kind |-> "profile", conv |-> sch.conv, start |-> sch.start,
                               prev |-> sch.prev, ok |-> ok, id |-> IF ok THEN nextId ELSE 0])
  /\ nextId' = IF ok THEN nextId + 1 ELSE nextId
  /\ IF ok
     THEN AddBegin(Sched, profile_conversation_id, <<[id |-> nextId, type |-> "profile"]>>,
                   FALSE, "s_next")
     ELSE pc' = [pc EXCEPT ![Sched] = "s_dead"] /\ UNCHANGED call
  /\ UNCHANGED <<ser, bufVars, loadVars, storeVars, clock, tie, autoUpload, kb, hubVars, handed, assigned, sch,
                 stop, nadd>>

\* if self._stop_event.wait(timeout=60): break
SchedWait ==
  /\ pc[Sched] = "s_wait"
  /\ IF stop
     THEN pc' = [pc EXCEPT ![Sched] = "s_done"] /\ UNCHANGED clock
     ELSE /\ StampedNow => clock < MaxClock
          /\ clock' = IF StampedNow THEN clock + 1 ELSE clock
          /\ pc' = [pc EXCEPT ![Sched] = "s_loop"]
  /\ UNCHANGED <<ser, bufVars, loadVars, storeVars, tie, autoUpload, call, kb, nextId, hubVars, handed,
                 assigned, schedVars>>

\* LTMemory.stop, called by the foreground thread: self._stop_event.set()
Stop(p) ==
  /\ pc[p] = "idle"
  /\ ~stop
  /\ stop' = TRUE
  /\ pc' = [pc EXCEPT ![p] = "join"]
  /\ UNCHANGED <<ser, bufVars, loadVars, storeVars, clock, tie, autoUpload, call, kb, nextId, hubVars, handed,
                 assigned, sch, sumlog, nadd>>

\* mutant of StopJoin: stop returns without joining the scheduler thread
StopJoinNoWait(p) ==
  /\ pc[p] = "join"
  /\ pc' = [pc EXCEPT ![p] = "idle"]
  /\ UNCHANGED <<ser, bufVars, loadVars, storeVars, clock, tie, autoUpload, call, kb, nextId, hubVars, handed,
                 assigned, schedVars>>

\* self._thread.join() returns once the scheduler thread has ended
StopJoin(p) ==
  /\ pc[p] = "join"
  /\ pc[Sched] \in {"s_done", "s_dead"}
  /\ pc' = [pc EXCEPT ![p] = "idle"]
  /\ UNCHANGED <<ser, bufVars, loadVars, storeVars, clock, tie, autoUpload, call, kb, nextId, hubVars, handed,
                 assigned, schedVars>>

-----------------------------------------------------------------------------
(* SchedSpec: an LTMemory over the database of its account, one foreground    *)
(* thread adding stm messages to conversation a.  The database may hold stm   *)
(* entries of an earlier session, added one per second.                       *)

PreloadSizes == {stms_per_ltm - 1, stms_per_ltm, 2 * stms_per_ltm}

\* the stm table after n sequential add calls of new messages, one per second
RECURSIVE Preload(_)
Preload(n) ==
  IF n = 0 THEN <<>>
  ELSE LET tbl == Preload(n - 1) IN
       InsertOrReplace(tbl, [id |-> n, conv |-> ConvA, idx |-> NextIndex(tbl, ConvA),
                             st |-> 0, at |-> n - 2 * stms_per_ltm - 1])

InitSched ==
  /\ \E n \in PreloadSizes :
       /\ db = [t \in Tiers |-> IF t = "stm" THEN Preload(n) ELSE <<>>]
       /\ kb = 1..n
       /\ nextId = n + 1
       /\ assigned = {}
  /\ wdb = db
  /\ wlock = "none"
  /\ clock = 0
  /\ tie \in TiePolicies
  /\ autoUpload = FALSE
  /\ pc = [p \in Procs |-> IF p = "p1" THEN "idle" ELSE IF p = Sched THEN "s_loop" ELSE "off"]
  /\ call = [p \in Procs |-> NoCall]
  /\ queue = <<>>
  /\ inflight = NoTask
  /\ events = {}
  /\ nextTask = 1
  /\ posts = <<>>
  /\ handed = {}
  /\ sch = NoSch
  /\ stop = FALSE
  /\ sumlog = <<>>
  /\ nadd = 0
  /\ ser = NoSer
  /\ InitBuffered
  /\ InitLoaded

NextSched ==
  \/ FgAddNew("p1", {ConvA}, {"stm"}, {1}, MaxNew)
  \/ \E p \in {"p1", Sched} : AddSelect(p)
  \/ \E p \in {"p1", Sched} : AddInsert(p)
  \/ \E p \in {"p1", Sched} : AddCommit(p)
  \/ SecondPasses
  \/ SchedLoop
  \/ SchedNext
  \/ SchedReadStm
  \/ SchedReadLtm
  \/ SchedFetch
  \/ \E ok \in BOOLEAN : SchedSumLtm(ok)
  \/ SchedReadProfile
  \/ \E ok \in BOOLEAN : SchedSumProfile(ok)
  \/ SchedWait
  \/ Stop("p1")
  \/ StopJoin("p1")

SchedSpec == InitSched /\ [][NextSched]_vars

-----------------------------------------------------------------------------
(* HoleSpec: the scheduler over a database in which one stm entry of the      *)
(* first window may have been deleted in an earlier session                   *)

\* the indices given to delete before the scheduler was started
PreloadHoles == {{}, {0}, {stms_per_ltm - 1}}

InitHole ==
  /\ \E hole \in PreloadHoles :
       db = [t \in Tiers |-> IF t = "stm"
                             THEN DeleteRows(Preload(2 * stms_per_ltm), ConvA, hole)
                             ELSE <<>>]
  /\ kb = 1..(2 * stms_per_ltm)
  /\ nextId = 2 * stms_per_ltm + 1
  /\ assigned = {}
  /\ wdb = db
  /\ wlock = "none"
  /\ clock = 0
  /\ tie \in TiePolicies
  /\ autoUpload = FALSE
  /\ pc = [p \in Procs |-> IF p = "p1" THEN "idle" ELSE IF p = Sched THEN "s_loop" ELSE "off"]
  /\ call = [p \in Procs |-> NoCall]
  /\ queue = <<>>
  /\ inflight = NoTask
  /\ events = {}
  /\ nextTask = 1
  /\ posts = <<>>
  /\ handed = {}
  /\ sch = NoSch
  /\ stop = FALSE
  /\ sumlog = <<>>
  /\ nadd = 0
  /\ ser = NoSer
  /\ InitBuffered
  /\ InitLoaded

HoleSpec == InitHole /\ [][NextSched]_vars

-----------------------------------------------------------------------------
(* DeleteSpec: the scheduler over a conversation that holds exactly one full  *)
(* window of stm entries; while the scheduler waits between two ticks the     *)
(* foreground thread deletes the oldest or the newest entry of the window,    *)
(* and it adds new messages                                                  *)

InitDelete ==
  /\ db = [t \in Tiers |-> IF t = "stm" THEN Preload(stms_per_ltm) ELSE <<>>]
  /\ kb = 1..stms_per_ltm
  /\ nextId = stms_per_ltm + 1
  /\ assigned = {}
  /\ wdb = db
  /\ wlock = "none"
  /\ clock = 0
  /\ tie \in TiePolicies
  /\ autoUpload = FALSE
  /\ pc = [p \in Procs |-> IF p = "p1" THEN "idle" ELSE IF p = Sched THEN "s_loop" ELSE "off"]
  /\ call = [p \in Procs |-> NoCall]
  /\ queue = <<>>
  /\ inflight = NoTask
  /\ events = {}
  /\ nextTask = 1
  /\ posts = <<>>
  /\ handed = {}
  /\ sch = NoSch
  /\ stop = FALSE
  /\ sumlog = <<>>
  /\ nadd = 0
  /\ ser = NoSer
  /\ InitBuffered
  /\ InitLoaded

\* memory.delete(index) of one entry of the stored window, once
FgDeleteOne ==
  /\ pc[Sched] = "s_wait"
  /\ Size(db, ConvA, "stm") = stms_per_ltm
  /\ nadd = 0
  /\ \E i \in {0, stms_per_ltm - 1} : Delete("p1", ConvA, {i}, "stm")

NextDelete ==
  \/ FgDeleteOne
  \/ FgAddNew("p1", {ConvA}, {"stm"}, {1}, MaxRefill)
  \/ \E p \in {"p1", Sched} : AddSelect(p)
  \/ \E p \in {"p1", Sched} : AddInsert(p)
  \/ \E p \in {"p1", Sched} : AddCommit(p)
  \/ SecondPasses
  \/ SchedLoop
  \/ SchedNext
  \/ SchedReadStm
  \/ SchedReadLtm
  \/ SchedFetch
  \/ \E ok \in BOOLEAN : SchedSumLtm(ok)
  \/ SchedReadProfile
  \/ \E ok \in BOOLEAN : SchedSumProfile(ok)
  \/ SchedWait

DeleteSpec == InitDelete /\ [][NextDelete]_vars

-----------------------------------------------------------------------------
(* RaceSpec: the scheduler over a conversation of 15 stm entries to which two *)
(* foreground threads add new messages, in the same second or not             *)

InitRace ==
  /\ db = [t \in Tiers |-> IF t = "stm" THEN Preload(stms_per_ltm - 1) ELSE <<>>]
  /\ kb = 1..(stms_per_ltm - 1)
  /\ nextId = stms_per_ltm
  /\ assigned = {}
  /\ wdb = db
  /\ wlock = "none"
  /\ clock = 0
  /\ tie \in TiePolicies
  /\ autoUpload = FALSE
  /\ pc = [p \in Procs |-> IF p = Sched THEN "s_loop" ELSE "idle"]
  /\ call = [p \in Procs |-> NoCall]
  /\ queue = <<>>
  /\ inflight = NoTask
  /\ events = {}
  /\ nextTask = 1
  /\ posts = <<>>
  /\ handed = {}
  /\ sch = NoSch
  /\ stop = FALSE
  /\ sumlog = <<>>
  /\ nadd = 0
  /\ ser = NoSer
  /\ InitBuffered
  /\ InitLoaded

NextRace ==
  \/ \E p \in FgProcs : FgAddNew(p, {ConvA}, {"stm"}, {1}, MaxRace)
  \/ \E p \in Procs : AddSelect(p)
  \/ \E p \in Procs : AddInsert(p)
  \/ \E p \in Procs : AddCommit(p)
  \/ SecondPasses
  \/ SchedLoop
  \/ SchedNext
  \/ SchedReadStm
  \/ SchedReadLtm
  \/ SchedFetch
  \/ SchedSumLtm(TRUE)
  \/ SchedReadProfile
  \/ SchedSumProfile(TRUE)
  \/ SchedWait

RaceSpec == InitRace /\ [][NextRace]_vars

-----------------------------------------------------------------------------
(* MsgSpec: Message.to_dict / from_dict and serialize / deserialize.  A Python *)
(* value is None, a str, or a dict with the one key "k".                       *)

None    == <<"none">>
Str(x)  == <<"str", x>>
Dict(v) == <<"dict", v>>

Attrs == {"id", "name", "content", "role", "url", "metadata", "timestamp", "type"}

\* the Message objects of the runs: Message(name, content, role, url, metadata, type)
Messages ==
  {[id |-> Str("id1"), name |-> Str("alice"), content |-> c, role |-> Str("user"),
    url |-> u, metadata |-> md, timestamp |-> Str("ts"), type |-> Str(t)] :
     c \in {Str("hi"), None}, u \in {None, Str("u")},
     md \in {None, Str("md"), Dict(Str("v")), Dict(None)}, t \in Tiers}

Perms(S) == {f \in [1..Cardinality(S) -> S] : \A i, j \in 1..Cardinality(S) : f[i] = f[j] => i = j}

\* the order in which to_dict walks the set __serialized_attrs is the
\* iteration order of a Python set of str, which is arbitrary; the attributes
\* that always hold a str are put first, their place does not change the result
AttrOrders ==
  {<<"id", "name", "role", "timestamp", "type">> \o o : o \in Perms({"content", "url", "metadata"})}

\* str(obj)
StrOf(v) == IF v = None THEN Str("None") ELSE v

\* _serialize_with_cycle_detection(obj) with the set seen_objects of the ids
\* of the objects met so far: None is one object, and a str is returned as it
\* is whether met before or not.  The result is <<value, seen_objects>>
SerializeValue(v, seen) ==
  IF v \in seen THEN <<StrOf(v), seen>>
  ELSE IF v[1] = "dict"
       THEN IF v[2] \in seen \cup {v}
            THEN <<Dict(StrOf(v[2])), seen \cup {v}>>
            ELSE <<Dict(v[2]), seen \cup {v, v[2]}>>
       ELSE <<v, seen \cup {v}>>

\* the walk of to_dict over the first n attributes of the order
RECURSIVE ToDictWalk(_, _, _)
ToDictWalk(m, order, n) ==
  IF n = 0 THEN [d |-> [a \in {} |-> None], seen |-> {}]
  ELSE LET w == ToDictWalk(m, order, n - 1)
           r == SerializeValue(m[order[n]], w.seen)
       IN  [d |-> [a \in (DOMAIN w.d) \cup {order[n]} |->
                     IF a = order[n] THEN r[1] ELSE w.d[a]],
            seen |-> r[2]]

\* Message.to_dict
ToDict(m, order) ==
  LET w == ToDictWalk(m, order, Len(order)) IN
  [a \in Attrs \cup {"__module__", "__name__"} |->
     IF a = "__module__" THEN Str("membase.memory.message")
     ELSE IF a = "__name__" THEN Str("Message") ELSE w.d[a]]

\* Message.from_dict: the keys are checked, the Message is built from name,
\* content, role, url, metadata and type, then id and timestamp are set
FromDict(d) ==
  IF DOMAIN d = Attrs \cup {"__module__", "__name__"}
     /\ d["__module__"] = Str("membase.memory.message") /\ d["__name__"] = Str("Message")
  THEN [a \in Attrs |-> d[a]]
  ELSE [a \in Attrs |-> <<"AssertionError">>]

\* json.dumps of a to_dict result: null, "string", {"k": value}
RECURSIVE JsonDumps(_)
JsonDumps(v) ==
  IF v = None THEN <<"null">>
  ELSE IF v[1] = "dict" THEN <<"object", JsonDumps(v[2])>>
  ELSE <<"string", v[2]>>

\* json.loads with _deserialize_hook, which leaves a dict that has no
\* "__module__" key as it is
RECURSIVE JsonLoads(_)
JsonLoads(j) ==
  IF j = <<"null">> THEN None
  ELSE IF j[1] = "object" THEN Dict(JsonLoads(j[2]))
  ELSE Str(j[2])

\* serialize(m): json.dumps(m, default=_default_serialize)
Serialize(m, order) == LET d == ToDict(m, order) IN [a \in DOMAIN d |-> JsonDumps(d[a])]

\* deserialize(s): json.loads(s, object_hook=_deserialize_hook)
Deserialize(js) == FromDict([a \in DOMAIN js |-> JsonLoads(js[a])])

InitMsg ==
  /\ InitCommon
  /\ tie = "scan"
  /\ autoUpload = FALSE
  /\ pc = [p \in Procs |-> "off"]
  /\ \E m \in Messages, order \in AttrOrders :
       ser = [step |-> "new", m |-> m, order |-> order]

serFrame == <<db, wdb, wlock, clock, tie, autoUpload, pc, call, kb, nextId, queue,
              inflight, events, nextTask, posts, handed, assigned, sch, stop, sumlog, nadd,
              bufVars, loadVars>>

\* d = m.to_dict()
MsgToDict ==
  /\ ser.step = "new"
  /\ ser' = [step |-> "dict", m |-> ser.m, order |-> ser.order, d |-> ToDict(ser.m, ser.order)]
  /\ UNCHANGED serFrame

\* m1 = Message.from_dict(d)
MsgFromDict ==
  /\ ser.step = "dict"
  /\ ser' = [step |-> "back", m |-> ser.m, order |-> ser.order, m1 |-> FromDict(ser.d)]
  /\ UNCHANGED serFrame

\* s = serialize(m)
MsgSerialize ==
  /\ ser.step = "back"
  /\ ser' = [step |-> "json", m |-> ser.m, order |-> ser.order, m1 |-> ser.m1,
             s |-> Serialize(ser.m, ser.order)]
  /\ UNCHANGED serFrame

\* m2 = deserialize(s)
MsgDeserialize ==
  /\ ser.step = "json"
  /\ ser' = [step |-> "done", m |-> ser.m, order |-> ser.order, m1 |-> ser.m1,
             m2 |-> Deserialize(ser.s)]
  /\ UNCHANGED serFrame

NextMsg ==
  \/ MsgToDict
  \/ MsgFromDict
  \/ MsgSerialize
  \/ MsgDeserialize

MsgSpec == InitMsg /\ [][NextMsg]_vars

-----------------------------------------------------------------------------
(* ReadBackSpec: the content column SqliteMemory.add writes for a Message and *)
(* what SqliteMemory.get makes of it                                          *)

\* msg_dict["metadata"] after add has put the conversation id and the
\* memory_index in: the dict of the message with the two keys added, or a new
\* dict when the metadata of the message is not a dict
StoredMetadata(v, conv, idx) ==
  <<"metadata", IF v[1] = "dict" THEN v[2] ELSE <<"absent">>, conv, idx>>

\* msg_dict as add hands it to json.dumps: msg.to_dict(), its metadata
\* replaced, and the key memory_type added
MsgDict(m, order, conv, idx) ==
  LET d == ToDict(m, order) IN
  [a \in (DOMAIN d) \cup {"memory_type"} |->
     IF a = "metadata" THEN StoredMetadata(d[a], conv, idx)
     ELSE IF a = "memory_type" THEN Str(TableOf(m["type"][2]))
     ELSE d[a]]

\* json.dumps(msg_dict, ensure_ascii=False)
ContentDumps(d) ==
  [a \in DOMAIN d |->
     IF d[a][1] = "metadata"
     THEN <<"object", IF d[a][2] = <<"absent">> THEN <<"absent">> ELSE JsonDumps(d[a][2]),
            <<"string", d[a][3]>>, <<"number", d[a][4]>>>>
     ELSE JsonDumps(d[a])]

\* json.loads(row[0])
ContentLoads(js) ==
  [a \in DOMAIN js |->
     IF js[a][1] = "object" /\ Len(js[a]) = 4
     THEN <<"metadata", IF js[a][2] = <<"absent">> THEN <<"absent">> ELSE JsonLoads(js[a][2]),
            js[a][3][2], js[a][4][2]>>
     ELSE JsonLoads(js[a])]

InitReadBack ==
  /\ InitCommon
  /\ tie = "scan"
  /\ autoUpload = FALSE
  /\ pc = [p \in Procs |-> "off"]
  /\ \E m \in Messages, order \in AttrOrders, conv \in StoreConvs, idx \in 0..1 :
       ser = [step |-> "add", m |-> m, order |-> order, conv |-> conv, idx |-> idx]

\* add: the content column of the row inserted for ser.m
RowWritten ==
  /\ ser.step = "add"
  /\ ser' = [step |-> "stored", m |-> ser.m, order |-> ser.order, conv |-> ser.conv,
             idx |-> ser.idx,
             content |-> ContentDumps(MsgDict(ser.m, ser.order, ser.conv, ser.idx))]
  /\ UNCHANGED serFrame

\* get: Message.from_dict(json.loads(row[0])) for the row
RowRead ==
  /\ ser.step = "stored"
  /\ ser' = [step |-> "read", m |-> ser.m, order |-> ser.order, conv |-> ser.conv,
             idx |-> ser.idx, content |-> ser.content,
             got |-> FromDict(ContentLoads(ser.content))]
  /\ UNCHANGED serFrame

NextReadBack ==
  \/ RowWritten
  \/ RowRead

ReadBackSpec == InitReadBack /\ [][NextReadBack]_vars

-----------------------------------------------------------------------------
(* AddLiveSpec: add calls with auto_upload_to_hub on, where a thread that can *)
(* take its next step takes it, the upload thread as in DrainSpec             *)

InAdd(p) == pc[p] \in {"select", "insert", "commit", "upload", "wait", "mark", "final"}

\* the next step of the add call of thread p
AddStep(p) ==
  \/ AddSelect(p)
  \/ AddInsert(p)
  \/ AddCommit(p)
  \/ AddUpload(p)
  \/ AddWait(p)
  \/ AddMark(p)
  \/ AddFinal(p)

NextAddLive ==
  \/ \E p \in FgProcs : FgAddNew(p, {ConvA}, {"stm"}, {1}, MaxHub)
  \/ \E p \in FgProcs : AddStep(p)
  \/ WorkerGet
  \/ \E ok \in BOOLEAN : WorkerPost(ok)

AddLiveSpec ==
  /\ InitHub
  /\ [][NextAddLive]_vars
  /\ \A p \in FgProcs : WF_vars(AddStep(p))
  /\ WF_vars(WorkerGet)
  /\ WF_vars(\E ok \in BOOLEAN : WorkerPost(ok))

-----------------------------------------------------------------------------
(* TwoConvSpec: the scheduler over two source conversations of one account,   *)
(* a holding 33 stm entries and b holding 17, added one per second in an      *)
(* earlier session                                                            *)

PreloadTwo(na, nb) ==
  [i \in 1..(na + nb) |->
     [id |-> i, conv |-> IF i <= na THEN ConvA ELSE ConvB,
      idx |-> IF i <= na THEN i - 1 ELSE i - na - 1,
      st |-> 0, at |-> i - (na + nb) - 1]]

InitTwoConv ==
  /\ db = [t \in Tiers |-> IF t = "stm"
                           THEN PreloadTwo(2 * stms_per_ltm + 1, stms_per_ltm + 1)
                           ELSE <<>>]
  /\ kb = 1..(3 * stms_per_ltm + 2)
  /\ nextId = 3 * stms_per_ltm + 3
  /\ assigned = {}
  /\ wdb = db
  /\ wlock = "none"
  /\ clock = 0
  /\ tie \in TiePolicies
  /\ autoUpload = FALSE
  /\ pc = [p \in Procs |-> IF p = Sched THEN "s_loop" ELSE "off"]
  /\ call = [p \in Procs |-> NoCall]
  /\ queue = <<>>
  /\ inflight = NoTask
  /\ events = {}
  /\ nextTask = 1
  /\ posts = <<>>
  /\ handed = {}
  /\ sch = NoSch
  /\ stop = FALSE
  /\ sumlog = <<>>
  /\ nadd = 0
  /\ ser = NoSer
  /\ InitBuffered
  /\ InitLoaded

NextTwoConv ==
  \/ AddSelect(Sched)
  \/ AddInsert(Sched)
  \/ AddCommit(Sched)
  \/ SecondPasses
  \/ SchedLoop
  \/ SchedNext
  \/ SchedReadStm
  \/ SchedReadLtm
  \/ SchedFetch
  \/ SchedSumLtm(TRUE)
  \/ SchedReadProfile
  \/ SchedSumProfile(TRUE)
  \/ SchedWait

TwoConvSpec == InitTwoConv /\ [][NextTwoConv]_vars

-----------------------------------------------------------------------------
(* StopLiveSpec: LTMemory(auto_upload_to_hub=True) over 32 stm entries, and a *)
(* foreground thread that calls stop().  The scheduler thread takes its next  *)
(* step whenever it can, the upload thread is as in DrainSpec, and join()     *)
(* returns once the scheduler thread has ended                                *)

InitStopLive ==
  /\ db = [t \in Tiers |-> IF t = "stm" THEN Preload(2 * stms_per_ltm) ELSE <<>>]
  /\ kb = 1..(2 * stms_per_ltm)
  /\ nextId = 2 * stms_per_ltm + 1
  /\ assigned = {}
  /\ wdb = db
  /\ wlock = "none"
  /\ clock = 0
  /\ tie \in TiePolicies
  /\ autoUpload = TRUE
  /\ pc = [p \in Procs |-> IF p = "p1" THEN "idle" ELSE IF p = Sched THEN "s_loop" ELSE "off"]
  /\ call = [p \in Procs |-> NoCall]
  /\ queue = <<>>
  /\ inflight = NoTask
  /\ events = {}
  /\ nextTask = 1
  /\ posts = <<>>
  /\ handed = {}
  /\ sch = NoSch
  /\ stop = FALSE
  /\ sumlog = <<>>
  /\ nadd = 0
  /\ ser = NoSer
  /\ InitBuffered
  /\ InitLoaded

\* the next step of the scheduler thread
SchedStep ==
  \/ SchedLoop
  \/ SchedNext
  \/ SchedReadStm
  \/ SchedReadLtm
  \/ SchedFetch
  \/ \E ok \in BOOLEAN : SchedSumLtm(ok)
  \/ SchedReadProfile
  \/ \E ok \in BOOLEAN : SchedSumProfile(ok)
  \/ SchedWait
  \/ AddStep(Sched)

NextStopLive ==
  \/ SchedStep
  \/ WorkerGet
  \/ \E ok \in BOOLEAN : WorkerPost(ok)
  \/ Stop("p1")
  \/ StopJoin("p1")

StopLiveSpec ==
  /\ InitStopLive
  /\ [][NextStopLive]_vars
  /\ WF_vars(SchedStep)
  /\ WF_vars(WorkerGet)
  /\ WF_vars(\E ok \in BOOLEAN : WorkerPost(ok))
  /\ WF_vars(StopJoin("p1"))

-----------------------------------------------------------------------------
(* BucketSpec: the bucket Client.upload_hub puts on the queue *)

\* the msg arguments: a str holding a JSON object with or without a "name"
\* key, a str holding a JSON array, a str that is not JSON, and a dict
HubMsgs ==
  {[kind |-> "str", json |-> "object", has_name |-> TRUE, name |-> n] :
      n \in {Str("alice"), Str(""), None}}
  \cup {[kind |-> "str", json |-> j, has_name |-> FALSE, name |-> None] :
          j \in {"object", "array", "invalid"}}
  \cup {[kind |-> "dict", json |-> "object", has_name |-> TRUE, name |-> Str("alice")]}

\* the owner arguments; "" stands for a caller that has no identity to give
HubOwners == {"acct", ""}

\* the values of os.getenv('MEMBASE_ID', '')
HubIds == {"", "hubid"}

\* the bucket arguments
HubBuckets == {None, Str("b"), Str("")}

\* default_bucket = owner; if self.membase_id != "": default_bucket = self.membase_id
DefaultBucket(owner, membase_id) == IF membase_id # "" THEN membase_id ELSE owner

\* the bucket of the task upload_hub puts on the queue; <<"raised">> when the
\* outer except is taken, upload_hub returns None and nothing is queued
UploadBucket(owner, membase_id, msg, bucket) ==
  IF bucket # None THEN bucket
  ELSE IF msg.kind = "str"
       THEN IF msg.json = "invalid" THEN Str(DefaultBucket(owner, membase_id))
            ELSE IF msg.json = "array" THEN <<"raised">>
            ELSE IF msg.has_name THEN msg.name
            ELSE Str(DefaultBucket(owner, membase_id))
       ELSE Str(DefaultBucket(owner, membase_id))

InitBucket ==
  /\ InitCommon
  /\ tie = "scan"
  /\ autoUpload = FALSE
  /\ pc = [p \in Procs |-> "off"]
  /\ \E owner \in HubOwners, id \in HubIds, msg \in HubMsgs, bucket \in HubBuckets :
       ser = [step |-> "call", owner |-> owner, membase_id |-> id, msg |-> msg,
              bucket |-> bucket]

\* hub_client.upload_hub(owner, filename, msg, bucket) up to the put
BucketChosen ==
  /\ ser.step = "call"
  /\ ser' = [step |-> "put", owner |-> ser.owner, membase_id |-> ser.membase_id,
             msg |-> ser.msg, bucket |-> ser.bucket,
             task_bucket |-> UploadBucket(ser.owner, ser.membase_id, ser.msg, ser.bucket)]
  /\ UNCHANGED serFrame

NextBucket == BucketChosen

BucketSpec == InitBucket /\ [][NextBucket]_vars

-----------------------------------------------------------------------------
(* BufferedMemory (memory/buffered_memory.py): the in-memory list of one      *)
(* conversation, used by one thread                                           *)

\* Message.metadata as far as the code reads it: None, a value without the
\* key "conversation", or a dict whose "conversation" is a conversation id
NoMeta    == <<"None">>
NoConvKey == <<"{}">>
BufMetas  == {NoMeta, NoConvKey, ConvB}

BufIds  == 1..MaxBufId
BufMsg(id, meta) == [id |-> id, type |-> "stm", meta |-> meta]
BufMsgs == {BufMsg(i, m) : i \in BufIds, m \in BufMetas}

\* what a caller may pass where Messages are expected
BufValues == BufMsgs \cup {NotAMessage}
BufLists  == {<<>>} \cup {<<a>> : a \in BufValues} \cup {<<a, b>> : a, b \in BufValues}

\* memory_unit.metadata["conversation"] = self._conversation_id (three branches)
Stamped(m, conv) == [m EXCEPT !.meta = conv]

\* self._message_map[memory_unit.id] = len(self._messages) - 1
MapPut(map, id, pos) ==
  [k \in DOMAIN map \cup {id} |-> IF k = id THEN pos ELSE map[k]]

\* memory_id = self._conversation_id + "_" + str(len(self._messages)-1)
BufMemoryId(conv, pos) == conv \o <<"_", pos>>

\* new_messages of delete: the messages whose position is not in index
NewMessages(ms, index) ==
  LET keep == {i \in 1..Len(ms) : (i - 1) \notin index}
      nth(j) == CHOOSE i \in keep : Cardinality({h \in keep : h <= i}) = j
  IN  [j \in 1..Cardinality(keep) |-> ms[nth(j)]]

\* new_message_map of delete: new_message_map[msg.id] = len(new_messages) - 1,
\* assigned in list order
NewMessageMap(new) ==
  [id \in {new[i].id : i \in 1..Len(new)} |->
     SetMax({i \in 1..Len(new) : new[i].id = id}) - 1]

\* Python s[start:] for an int start
PySliceFrom(s, start) ==
  LET from == IF start < 0
              THEN (IF Len(s) + start < 0 THEN 0 ELSE Len(s) + start)
              ELSE (IF start > Len(s) THEN Len(s) ELSE start)
  IN  SubSeq(s, from + 1, Len(s))

NoRecent == -1
Filters  == {"None", "even"}

\* [_ for i, _ in enumerate(memories) if filter_func(i, _)]
Filtered(ms, filter) ==
  IF filter = "None" THEN ms
  ELSE NewMessages(ms, {i \in 0..Len(ms) : i % 2 = 1})

\* BufferedMemory.get(recent_n, filter_func)
BufGetResult(ms, recent_n, filter) ==
  LET memories ==
        IF recent_n = NoRecent THEN ms
        ELSE LET n == IF recent_n > Len(ms) THEN Len(ms) ELSE recent_n
             IN  PySliceFrom(ms, 0 - n)
  IN  Filtered(memories, filter)

\* add_with_upload(memories, upload_to_hub) up to the loop
BufBegin(p, memories, upload) ==
  /\ bcall' = [msgs |-> memories, k |-> 1, upload |-> upload, task |-> 0]
  /\ pc' = [pc EXCEPT ![p] = "b_add"]

\* memory.add(memories)
BufAdd(p) ==
  /\ pc[p] = "idle"
  /\ \E memories \in BufLists : BufBegin(p, memories, TRUE)
  /\ UNCHANGED <<ser, messages, message_map, conversation_id, loadVars, storeVars, clock,
                 tie, autoUpload, call, kb, nextId, hubVars, handed, assigned, schedVars>>

\* one turn of the loop of add_with_upload over record_memories
BufAddStep(p) ==
  /\ pc[p] = "b_add"
  /\ LET f == bcall IN
       IF f.k > Len(f.msgs) \/ ~IsMessage(f.msgs[f.k])
       THEN \* the list is done, or ValueError is raised
            /\ pc' = [pc EXCEPT ![p] = "idle"]
            /\ bcall' = NoBCall
            /\ UNCHANGED <<messages, message_map, queue, nextTask>>
       ELSE IF f.msgs[f.k].id \in DOMAIN message_map
       THEN \* duplicate: continue
            /\ bcall' = [f EXCEPT !.k = f.k + 1]
            /\ UNCHANGED <<pc, messages, message_map, queue, nextTask>>
       ELSE /\ messages' = Append(messages, Stamped(f.msgs[f.k], conversation_id))
            /\ message_map' = MapPut(message_map, f.msgs[f.k].id, Len(messages))
            /\ IF autoUpload /\ f.upload
               THEN /\ Enqueue(p, BufMemoryId(conversation_id, Len(messages)))
                    /\ bcall' = [f EXCEPT !.task = nextTask]
                    /\ pc' = [pc EXCEPT ![p] = "b_wait"]
               ELSE /\ bcall' = [f EXCEPT !.k = f.k + 1]
                    /\ UNCHANGED <<pc, queue, nextTask>>
  /\ UNCHANGED <<ser, conversation_id, loadVars, storeVars, clock, tie, autoUpload, call, kb,
                 nextId, inflight, events, posts, handed, assigned, schedVars>>

\* event.wait() inside upload_hub returns
BufAddWait(p) ==
  /\ pc[p] = "b_wait"
  /\ bcall.task \in events
  /\ bcall' = [bcall EXCEPT !.k = bcall.k + 1, !.task = 0]
  /\ pc' = [pc EXCEPT ![p] = "b_add"]
  /\ UNCHANGED <<ser, messages, message_map, conversation_id, loadVars, storeVars, clock,
                 tie, autoUpload, call, kb, nextId, hubVars, handed, assigned, schedVars>>

\* mutant of BufDelete: the map keeps the positions the messages had
BufDeleteStale(p) ==
  /\ pc[p] = "idle"
  /\ \E index \in SUBSET (-1..MaxBufId), isList \in BOOLEAN :
       IF Len(messages) = 0 \/ ~isList
       THEN UNCHANGED <<messages, message_map>>
       ELSE /\ messages' = NewMessages(messages, index)
            /\ message_map' = [id \in {messages'[i].id : i \in 1..Len(messages')} |->
                                 message_map[id]]
  /\ UNCHANGED <<ser, conversation_id, bcall, loadVars, storeVars, clock, tie, autoUpload,
                 pc, call, kb, nextId, hubVars, handed, assigned, schedVars>>

\* memory.delete(index): an int, a list, or another iterable (NotImplementedError)
BufDelete(p) ==
  /\ pc[p] = "idle"
  /\ \E index \in SUBSET (-1..MaxBufId), isList \in BOOLEAN :
       IF Len(messages) = 0 \/ ~isList
       THEN UNCHANGED <<messages, message_map>>
       ELSE /\ messages' = NewMessages(messages, index)
            /\ message_map' = NewMessageMap(messages')
  /\ UNCHANGED <<ser, conversation_id, bcall, loadVars, storeVars, clock, tie, autoUpload,
                 pc, call, kb, nextId, hubVars, handed, assigned, schedVars>>

\* str(uuid.uuid4())
Uuid(n) == <<"uuid", n>>

\* memory.clear()
BufClear(p) ==
  /\ pc[p] = "idle"
  /\ nextId <= MaxUuid
  /\ messages' = <<>>
  /\ message_map' = [i \in {} |-> 0]
  /\ conversation_id' = Uuid(nextId)
  /\ nextId' = nextId + 1
  /\ UNCHANGED <<ser, bcall, loadVars, storeVars, clock, tie, autoUpload, pc, call, kb,
                 hubVars, handed, assigned, schedVars>>

\* memory.load(memories, overwrite) with a list of values or a serialized list
BufLoad(p) ==
  /\ pc[p] = "idle"
  /\ \E memories \in BufLists, overwrite \in BOOLEAN :
       IF \E i \in 1..Len(memories) : ~IsMessage(memories[i])
       THEN \* TypeError
            UNCHANGED <<messages, message_map, conversation_id, bcall, pc, nextId>>
       ELSE IF ~overwrite
       THEN /\ BufBegin(p, memories, FALSE)
            /\ UNCHANGED <<messages, message_map, conversation_id, nextId>>
       ELSE /\ nextId <= MaxUuid
            /\ messages' = <<>>
            /\ message_map' = [i \in {} |-> 0]
            /\ nextId' = nextId + 1
            /\ IF memories # <<>> /\ memories[1].meta = NoMeta
               THEN \* 'conversation' in None: TypeError after the clear
                    /\ conversation_id' = Uuid(nextId)
                    /\ UNCHANGED <<bcall, pc>>
               ELSE /\ conversation_id' =
                         IF memories # <<>> /\ memories[1].meta \notin {NoMeta, NoConvKey}
                         THEN memories[1].meta ELSE Uuid(nextId)
                    /\ BufBegin(p, memories, FALSE)
  /\ UNCHANGED <<ser, loadVars, storeVars, clock, tie, autoUpload, call, kb,
                 hubVars, handed, assigned, schedVars>>

\* memory.get(recent_n, filter_func)
BufGet(p) ==
  /\ pc[p] = "idle"
  /\ \E recent_n \in {NoRecent} \cup 0..MaxRecent, filter \in Filters :
       ser' = [step |-> "get", self |-> messages, recent_n |-> recent_n,
               filter |-> filter,
               result |-> BufGetResult(messages, recent_n, filter)]
  /\ UNCHANGED serFrame

\* BufSpec: a BufferedMemory with or without auto_upload_to_hub, and the
\* upload thread
InitBuf ==
  /\ InitCommon
  /\ ser = NoSer
  /\ tie = "scan"
  /\ autoUpload \in BOOLEAN
  /\ pc = [p \in Procs |-> IF p = "p1" THEN "idle" ELSE "off"]

NextBuf ==
  \/ BufAdd("p1")
  \/ BufAddStep("p1")
  \/ BufAddWait("p1")
  \/ BufDelete("p1")
  \/ BufClear("p1")
  \/ BufLoad("p1")
  \/ WorkerGet
  \/ \E ok \in BOOLEAN : WorkerPost(ok)

BufSpec == InitBuf /\ [][NextBuf]_vars

\* BufGetSpec: a BufferedMemory(auto_upload_to_hub=False) to which messages
\* are added and which is read with get
InitBufGet ==
  /\ InitCommon
  /\ ser = NoSer
  /\ tie = "scan"
  /\ autoUpload = FALSE
  /\ pc = [p \in Procs |-> IF p = "p1" THEN "idle" ELSE "off"]

NextBufGet ==
  \/ BufAdd("p1")
  \/ BufAddStep("p1")
  \/ BufGet("p1")

BufGetSpec == InitBufGet /\ [][NextBufGet]_vars

-----------------------------------------------------------------------------
(* LTMemory.load_from_hub, one step per statement that reads or writes the   *)
(* object or contacts the hub                                                *)

\* ids of the messages the hub holds, different from those of new messages
RemoteIds == {101}

\* a message string of the hub: the dict of a Message (as BufferedMemory
\* uploads it), the dict SqliteMemory uploads (which has the extra key
\* memory_type), or JSON that is not the dict of a message
RemoteItems ==
  {[kind |-> k, id |-> i] : k \in {"message", "row", "junk"}, i \in RemoteIds}

\* hub_client.get_conversation: the list (None on a request error)
RemoteLists ==
  {<<>>} \cup {<<a>> : a \in RemoteItems}
         \cup {<<a, b>> : a \in {x \in RemoteItems : MaxRemote >= 2}, b \in RemoteItems}

\* Message.from_dict(json_msg) succeeds: the keys are exactly those of a Message
FromDictOk(item) == item.kind = "message"

\* if self.is_preloaded(conversation_id): return
LoadCheck(p) ==
  /\ pc[p] = "idle"
  /\ \E conv \in StoreConvs :
       IF conv \in preload_conversations
       THEN UNCHANGED <<pc, load>>
       ELSE /\ load' = [load EXCEPT ![p] = [conv |-> conv, rest |-> <<>>]]
            /\ pc' = [pc EXCEPT ![p] = "l_mark"]
  /\ UNCHANGED <<ser, bufVars, preload_conversations, gets, storeVars, clock, tie,
                 autoUpload, call, kb, nextId, hubVars, handed, assigned, schedVars>>

\* self._preload_conversations[conversation_id] = True
LoadMark(p) ==
  /\ pc[p] = "l_mark"
  /\ preload_conversations' = preload_conversations \cup {load[p].conv}
  /\ pc' = [pc EXCEPT ![p] = "l_get"]
  /\ UNCHANGED <<ser, bufVars, load, gets, storeVars, clock, tie,
                 autoUpload, call, kb, nextId, hubVars, handed, assigned, schedVars>>

\* msgstrings = hub_client.get_conversation(...); if msgstrings is None: return
LoadGet(p) ==
  /\ pc[p] = "l_get"
  /\ gets' = Append(gets, load[p].conv)
  /\ \E msgstrings \in RemoteLists, failed \in BOOLEAN :
       IF failed
       THEN /\ load' = [load EXCEPT ![p] = NoLoad]
            /\ pc' = [pc EXCEPT ![p] = "idle"]
       ELSE /\ load' = [load EXCEPT ![p].rest = msgstrings]
            /\ pc' = [pc EXCEPT ![p] = "l_loop"]
  /\ UNCHANGED <<ser, bufVars, preload_conversations, storeVars, clock, tie,
                 autoUpload, call, kb, nextId, hubVars, handed, assigned, schedVars>>

\* for msgstring in msgstrings: json.loads, the format check, from_dict and
\* memory.add(conversation_id, msg, from_hub=True); an exception is logged
LoadLoop(p) ==
  /\ pc[p] = "l_loop"
  /\ IF load[p].rest = <<>>
     THEN /\ load' = [load EXCEPT ![p] = NoLoad]
          /\ pc' = [pc EXCEPT ![p] = "idle"]
          /\ UNCHANGED call
     ELSE /\ load' = [load EXCEPT ![p].rest = Tail(@)]
          /\ IF FromDictOk(Head(load[p].rest))
             THEN AddBegin(p, load[p].conv,
                           <<[id |-> Head(load[p].rest).id, type |-> "stm"]>>,
                           TRUE, "l_loop")
             ELSE UNCHANGED <<pc, call>>
  /\ UNCHANGED <<ser, bufVars, preload_conversations, gets, storeVars, clock, tie,
                 autoUpload, kb, nextId, hubVars, handed, assigned, schedVars>>

\* LoadSpec: an LTMemory(auto_upload_to_hub=True) whose load_from_hub and add
\* are called by two threads
InitLoad ==
  /\ InitCommon
  /\ ser = NoSer
  /\ tie = "scan"
  /\ autoUpload = TRUE
  /\ pc = [p \in Procs |-> IF p \in FgProcs THEN "idle" ELSE "off"]

NextLoad ==
  \/ \E p \in FgProcs : LoadCheck(p)
  \/ \E p \in FgProcs : LoadMark(p)
  \/ \E p \in FgProcs : LoadGet(p)
  \/ \E p \in FgProcs : LoadLoop(p)
  \/ FgAddNew("p1", {ConvA}, {"stm"}, {1}, MaxOwn)
  \/ \E p \in FgProcs : AddSelect(p)
  \/ \E p \in FgProcs : AddInsert(p)
  \/ \E p \in FgProcs : AddCommit(p)
  \/ \E p \in FgProcs : AddUpload(p)
  \/ \E p \in FgProcs : AddWait(p)
  \/ \E p \in FgProcs : AddMark(p)
  \/ \E p \in FgProcs : AddFinal(p)
  \/ WorkerGet
  \/ \E ok \in BOOLEAN : WorkerPost(ok)

LoadSpec == InitLoad /\ [][NextLoad]_vars

-----------------------------------------------------------------------------
(* Properties of the store *)

IdxSet(rows) == {rows[i].idx : i \in 1..Len(rows)}

\* the entries of a conversation and tier in the order they were committed
CommitOrder(tables, conv, type) == RowsOf(tables[TableOf(type)], conv)

LastN(s, k) == IF k >= Len(s) THEN s ELSE SubSeq(s, Len(s) - k + 1, Len(s))

AllIdle == \A p \in FgProcs : pc[p] = "idle"

\* C1: once N concurrent add calls of new messages have returned, the indices
\* stored for every (conversation, tier) are exactly 0..N-1, none twice.
C1_ConcurrentAddsGapFree ==
  AllIdle =>
    \A conv \in StoreConvs, type \in StoreTypes :
      LET rows == CommitOrder(db, conv, type) IN
        /\ IdxSet(rows) = 0..(Len(rows) - 1)
        /\ \A i, j \in 1..Len(rows) : rows[i].idx = rows[j].idx => i = j

\* C8: get() returns the entries in commit order and get(recent_n=k) the last
\* min(k, size) of them, whatever order sqlite gives rows of one created_at.
C8_GetCommitOrder ==
  \A conv \in StoreConvs, type \in StoreTypes :
    LET order == CommitOrder(db, conv, type) IN
      /\ GetRows(db, tie, conv, NoLimit, type) = order
      /\ \A k \in 0..(MaxAdds + 1) : GetRows(db, tie, conv, k, type) = LastN(order, k)

C10_IndicesNotReused ==
  \A x, y \in assigned :
    (x[1] = y[1] /\ x[2] = y[2] /\ x[3] = y[3]) => x[4] = y[4]

-----------------------------------------------------------------------------
(* Properties of the upload path *)

\* C6: a caller blocked in upload_hub(wait=True) can return once the worker has
\* attempted its item, whether the POST succeeded or failed.
C6_WaitReturnsAfterAttempt ==
  \A p \in FgProcs :
    (pc[p] \in {"wait", "uwait"} /\ Attempted(call[p].task)) => call[p].task \in events

HubEntry(f, j) == <<TableOf(f.hub[j].type), f.conv, f.hub[j].idx, f.hub[j].id>>

\* C7: every message of an add call is committed before any of them is handed
\* to upload_hub, and a committed message stays stored and counted by size
\* whether its upload succeeded, failed or was never attempted.
C7_CommitBeforeUpload ==
  /\ \A p \in FgProcs :
       pc[p] \in {"upload", "wait", "mark", "final"} =>
         \A j \in 1..Len(call[p].hub) : HubEntry(call[p], j) \in assigned
  /\ \A h \in handed : <<h.tier, h.conv, h.idx, h.id>> \in assigned
  /\ \A x \in assigned :
       \E r \in Rng(db[x[1]]) : r.conv = x[2] /\ r.idx = x[3] /\ r.id = x[4]
  /\ \A conv \in StoreConvs, t \in Tiers :
       Size(db, conv, t) = Cardinality({x \in assigned : x[1] = t /\ x[2] = conv})

\* C7 witness: of two messages handed to the hub one upload has failed and the
\* other has not been attempted; both rows are stored with upload_status 0.
C7_Witness ==
  \E h, g \in handed :
    /\ h # g
    /\ \E j \in 1..Len(posts) : posts[j].ev = h.ev /\ ~posts[j].ok
    /\ ~Attempted(g.ev)
    /\ \A x \in {h, g} :
         \E r \in Rng(db[x.tier]) : r.conv = x.conv /\ r.idx = x.idx /\ r.id = x.id /\ r.st = 0


\* the hub upload of the record of row r of tier t has completed successfully
UploadedOk(t, r) ==
  \E h \in handed :
    /\ h.tier = t /\ h.conv = r.conv /\ h.idx = r.idx /\ h.id = r.id
    /\ \E j \in 1..Len(posts) : posts[j].ev = h.ev /\ posts[j].ok

\* C23: a stored record has upload_status = 1 only if a hub upload of that
\* record completed successfully; a record whose upload failed or was never
\* attempted keeps upload_status = 0
C23_StatusOnlyAfterUpload ==
  \A t \in Tiers : \A i \in 1..Len(db[t]) : db[t][i].st = 1 => UploadedOk(t, db[t][i])

-----------------------------------------------------------------------------
(* The upload thread, over DrainSpec *)

\* the task of ticket e has been put on the queue
Enqueued(e) == nextTask > e

\* C24: the upload worker attempts each enqueued item exactly once: a failed
\* item is not posted again, and the worker keeps draining after a failure, so
\* every item enqueued is eventually attempted
C24_EachItemAttemptedOnce ==
  /\ [](\A i, j \in 1..Len(posts) : posts[i].ev = posts[j].ev => i = j)
  /\ [](\A j \in 1..Len(posts) : Enqueued(posts[j].ev))
  /\ \A e \in 1..MaxTasks : Enqueued(e) ~> Attempted(e)

\* C24 witness: the POST of the first item failed and the item enqueued after
\* it has been attempted
C24_Witness ==
  /\ Len(posts) >= 2
  /\ ~posts[1].ok
  /\ posts[1].ev = 1
  /\ posts[2].ev = 2

\* the tickets taken off the queue whose POST has not ended
InFlight ==
  {e \in 1..MaxTasks : /\ Enqueued(e)
                       /\ ~Attempted(e)
                       /\ \A i \in 1..Len(queue) : queue[i].ev # e}

\* C25: the queue is drained by one worker in FIFO order: at most one upload
\* is in flight, and of two items put on the queue (tickets are numbered in
\* the order of the put calls, so also two items of one caller) the POST of
\* the first is attempted before the POST of the second
C25_SingleWorkerFifo ==
  /\ Cardinality(InFlight) <= 1
  /\ \A i, j \in 1..Len(posts) : i < j => posts[i].ev < posts[j].ev
  /\ \A e \in InFlight : /\ \A j \in 1..Len(posts) : posts[j].ev < e
                         /\ \A i \in 1..Len(queue) : e < queue[i].ev
  /\ \A i, j \in 1..Len(queue) : i < j => queue[i].ev < queue[j].ev

\* C25 witness: p1 has put two items and p2 has made no call; the POST of the
\* first has failed and the second is in flight
C25_Witness ==
  /\ Len(posts) = 1
  /\ posts[1].ev = 1
  /\ InFlight = {2}
  /\ inflight.by = "p1"
  /\ call["p2"] = NoCall
  /\ ~posts[1].ok
  /\ nextTask = 3

-----------------------------------------------------------------------------
(* Properties of the consolidation scheduler, over SchedSpec *)

\* the calls of the LTM summarizer for conversation c, oldest first
LtmLog(c) == SelectSeq(sumlog, LAMBDA e : e.kind = "ltm" /\ e.conv = c)

OkCount(log) == Cardinality({j \in 1..Len(log) : log[j].ok})

LtmCount(c)  == Size(db, LtmConv(c), "ltm")
ProfileCount == Size(db, profile_conversation_id, "profile")

\* the scheduler has finished a pass over the conversations in which it looked at c
PassDone(c) == pc[Sched] = "s_wait" /\ sch.conv = c

\* the add call that stored the message of index i of conversation c has committed
Committed(c, i) == \E a \in assigned : a[1] = "stm" /\ a[2] = c /\ a[3] = i

\* C2: with fewer than 16 STM messages in a conversation no LTM and no Profile
\* entry is written; once the 16th STM message is committed, the next pass of
\* the scheduler (no summarizer failure) writes exactly one LTM and one Profile entry
C2_SixteenthTriggers ==
  /\ Size(db, ConvA, "stm") < stms_per_ltm => (LtmCount(ConvA) = 0 /\ ProfileCount = 0)
  /\ ( /\ Committed(ConvA, stms_per_ltm - 1)
       /\ Size(db, ConvA, "stm") = stms_per_ltm
       /\ PassDone(ConvA)
       /\ sch.latest = stms_per_ltm - 1
       /\ sch.last = -1
       /\ Failures = 0 )
     => (LtmCount(ConvA) = 1 /\ ProfileCount = 1)

\* C3: with 32 STM messages in a fresh conversation and no summarizer failure,
\* once the scheduler has nothing left to do there are exactly two LTM and two
\* Profile entries, and the second LTM summarization was given the first LTM
\* entry as the previous LTM
C3_TwoBatches ==
  ( /\ Size(db, ConvA, "stm") = 2 * stms_per_ltm
    /\ PassDone(ConvA)
    /\ sch.latest = 2 * stms_per_ltm - 1
    /\ ~sch.due
    /\ Failures = 0 )
  => /\ LtmCount(ConvA) = 2
     /\ ProfileCount = 2
     /\ Len(LtmLog(ConvA)) = 2
     /\ LtmLog(ConvA)[2].prev = LtmLog(ConvA)[1].id

\* C4: when STM writes have stopped at n = Size(stm) entries, the scheduler keeps
\* running and no summarizer call fails, the conversation ends up with
\* floor(n / 16) LTM entries: a pass that saw the newest STM entry and found
\* nothing to do leaves that many
C4_AllBatchesConsolidated ==
  ( /\ pc["p1"] = "idle"
    /\ PassDone(ConvA)
    /\ sch.latest = MaxIndex(db["stm"], ConvA)
    /\ ~sch.due
    /\ Failures = 0 )
  => LtmCount(ConvA) = Size(db, ConvA, "stm") \div stms_per_ltm

\* the scheduler is inside the add call that stores a new LTM entry of c
LtmAddPending(c) ==
  pc[Sched] \in {"select", "insert", "commit"} /\ call[Sched].conv = LtmConv(c)

\* C5: a failed LTM summarization writes no LTM entry (the LTM entries are
\* those of the successful summarizations), the next call of the LTM
\* summarizer is for the same window and the same previous LTM, and every
\* later pass over the conversation makes that call; the failure itself does
\* not end the scheduler thread
C5_FailedLtmRetried ==
  LET log == LtmLog(ConvA) IN
  /\ LtmCount(ConvA) = OkCount(log) - (IF LtmAddPending(ConvA) THEN 1 ELSE 0)
  /\ \A j \in 1..(Len(log) - 1) :
       ~log[j].ok => (log[j + 1].start = log[j].start /\ log[j + 1].prev = log[j].prev)
  /\ (PassDone(ConvA) /\ log # <<>> /\ ~log[Len(log)].ok) => sch.called
  /\ (sumlog # <<>> /\ sumlog[Len(sumlog)].kind = "ltm") => pc[Sched] # "s_dead"

\* a failed LTM summarization has been followed by a second call
C5_Witness ==
  LET log == LtmLog(ConvA) IN
  /\ Len(log) >= 2
  /\ ~log[1].ok
  /\ log[2].ok
  /\ log[2].start = log[1].start
  /\ LtmCount(ConvA) = 1


\* the LTM rows of conversation c, committed or in the scheduler's open transaction
LtmRows(c) == RowsOf(View(Sched)["ltm"], LtmConv(c))

\* the successful LTM summarizations of conversation c
OkLtm(c) == SelectSeq(LtmLog(c), LAMBDA e : e.ok)

\* C11: every STM window [16k, 16k+15] of a conversation is consumed by at most
\* one committed consolidation cycle: no two LTM entries of the conversation were
\* produced from the same window, and the LTM entry of index k is the one
\* produced from the window that starts at 16k, whatever the foreground adds
C11_WindowConsumedOnce ==
  LET ok == OkLtm(ConvA) IN
  /\ \A i, j \in 1..Len(ok) : i # j => ok[i].start # ok[j].start
  /\ \A r \in Rng(LtmRows(ConvA)) :
       \E i \in 1..Len(ok) : ok[i].id = r.id /\ ok[i].start = r.idx * stms_per_ltm
  /\ \A r1, r2 \in Rng(LtmRows(ConvA)) : r1.idx = r2.idx => r1 = r2

\* two windows have been consumed, by two LTM entries, with a foreground add between
C11_Witness ==
  /\ LtmCount(ConvA) = 2
  /\ Len(OkLtm(ConvA)) = 2
  /\ nadd >= 1
  /\ pc[Sched] = "s_wait"

\* c is an LTM or Profile conversation
Derived(c) == c # <<>> /\ c[1] \in {"membase_ltm_", "membase_profile_"}

AllRows == UNION {Rng(db[t]) \cup Rng(wdb[t]) : t \in Tiers}

\* C12: the scheduler never takes a derived conversation (membase_ltm_* or
\* membase_profile_*) as the source of a consolidation: the conversation it
\* works on and the conversation of every summarizer call is not derived, and
\* no conversation id membase_ltm_membase_ltm_* (or an LTM of the Profile) exists
C12_NoDerivedSource ==
  /\ ~Derived(sch.conv)
  /\ \A j \in 1..Len(sumlog) : ~Derived(sumlog[j].conv)
  /\ \A r \in AllRows : Len(r.conv) >= 2 => ~(r.conv[1] = "membase_ltm_" /\ Derived(Tail(r.conv)))
  /\ \A p \in Procs : call[p].conv # <<>> /\ call[p].conv[1] = "membase_ltm_"
                        => ~Derived(Tail(call[p].conv))

\* a pass has gone over a store that lists the LTM and the Profile conversation
\* and has skipped both
C12_Witness ==
  /\ pc[Sched] = "s_wait"
  /\ sch.convs = {}
  /\ sch.conv = ConvA
  /\ sch.last = 0
  /\ {LtmConv(ConvA), profile_conversation_id} \subseteq ListConversations(db)


-----------------------------------------------------------------------------
(* add with a value that is not a Message, over BadAddSpec *)

\* C13: an add call that is given a non-Message value, alone or anywhere in a
\* sequence of messages, fails and persists nothing: when it has raised, no
\* row of the call is committed, no index is recorded for it, and no message of
\* the call has a document in the knowledge base or was handed to the hub
C13_BadAddPersistsNothing ==
  \A p \in FgProcs :
    pc[p] = "raised" =>
      \A j \in 1..Len(call[p].msgs) :
        LET m == call[p].msgs[j] IN
        IsMessage(m) =>
          /\ \A t \in Tiers : \A r \in Rng(db[t]) : r.id # m.id
          /\ \A x \in assigned : x[4] # m.id
          /\ \A h \in handed : h.id # m.id
          /\ m.id \notin kb


-----------------------------------------------------------------------------
(* stop, over SchedSpec *)

\* stop() has been called and has returned
StopReturned == stop /\ pc["p1"] # "join"

IsPrefix(s, t) == Len(s) <= Len(t) /\ SubSeq(t, 1, Len(s)) = s

\* C14: after stop() has returned the scheduler thread has ended and no LTM or
\* Profile entry is written any more; a cycle in progress when stop is
\* signalled is not cut short (the thread ends only at the head of the loop or
\* in its wait), and LTM and Profile entries once committed are never removed
C14_StopIsClean ==
  [][ /\ StopReturned' => pc'[Sched] \in {"s_done", "s_dead"}
      /\ StopReturned => (db'["ltm"] = db["ltm"] /\ db'["profile"] = db["profile"])
      /\ pc'[Sched] = "s_done" => pc[Sched] \in {"s_loop", "s_wait", "s_done"}
      /\ \A t \in {"ltm", "profile"} : IsPrefix(db[t], db'[t])
    ]_vars

\* stop was signalled during a cycle: the caller is in join, the LTM entry of
\* the cycle is committed and the scheduler is at its profile step
C14_Witness ==
  /\ stop
  /\ pc["p1"] = "join"
  /\ pc[Sched] = "s_sumprof"
  /\ LtmCount(ConvA) = 1


\* the scheduler is past the trigger of the conversation it is looking at
PastTrigger ==
  pc[Sched] \in {"s_fetch", "s_sumltm", "s_prof", "s_sumprof", "s_dead",
                 "select", "insert", "commit"}

\* C17: the scheduler writes an LTM entry only if, when the trigger was
\* evaluated, floor(latest STM index / 16) > last LTM index + 1; when that is
\* false the tick makes no Summarizer call and no write for the conversation
C17_TriggerGuardsCycle ==
  [][ /\ (PastTrigger' \/ sch'.called) => (sch'.latest \div 16) > sch'.last + 1
      /\ (sumlog' # sumlog \/ db'["ltm"] # db["ltm"] \/ db'["profile"] # db["profile"])
           => (PastTrigger /\ (sch.latest \div 16) > sch.last + 1)
    ]_vars

\* C17 witness: one LTM entry was written from 32 stm entries; in a later
\* tick the trigger was evaluated on latest 31 (or 32) and last 0, was false,
\* and the tick ended without a Summarizer call
C17_Witness ==
  /\ PassDone(ConvA)
  /\ LtmCount(ConvA) = 1
  /\ sch.last = 0
  /\ sch.latest >= 2 * stms_per_ltm - 1
  /\ ~sch.called

\* C18: when the LTM summarization fails the scheduler aborts the
\* conversation for that tick: no LTM entry is written, and no Profile
\* summarizer call and no Profile entry follow the failed call
C18_FailedLtmAbortsTick ==
  /\ LtmCount(ConvA) = OkCount(LtmLog(ConvA)) - (IF LtmAddPending(ConvA) THEN 1 ELSE 0)
  /\ \A j \in 1..(Len(sumlog) - 1) :
       (sumlog[j].kind = "ltm" /\ ~sumlog[j].ok) => sumlog[j + 1].kind # "profile"
  /\ (LtmLog(ConvA) # <<>> /\ OkCount(LtmLog(ConvA)) = 0) => ProfileCount = 0

\* C19: when the Profile summarization fails only the profile step is
\* skipped: the LTM entry written before it stays, no Profile entry is
\* written for the failed call, and the scheduler keeps running
C19_FailedProfileSkipsStep ==
  LET log == SelectSeq(sumlog, LAMBDA e : e.kind = "profile") IN
  /\ ProfileCount <= OkCount(log)
  /\ (sumlog # <<>> /\ sumlog[Len(sumlog)].kind = "profile" /\ ~sumlog[Len(sumlog)].ok)
       => /\ LtmCount(ConvA) = OkCount(LtmLog(ConvA))
          /\ pc[Sched] # "s_dead"

-----------------------------------------------------------------------------
(* The short window, over HoleSpec *)

\* number of stm entries of conversation c with an index in [start, start + 15]
WindowCount(c, start) ==
  Cardinality({i \in 1..Len(db["stm"]) :
                 /\ db["stm"][i].conv = c
                 /\ start <= db["stm"][i].idx
                 /\ db["stm"][i].idx <= start + 15})

\* C20: if the window scan returns fewer than 16 STM entries the scheduler
\* aborts the conversation for that tick: no Summarizer call, no LTM entry
\* and no Profile entry
C20_ShortWindowAborts ==
  /\ (pc[Sched] \in {"s_sumltm", "s_prof", "s_sumprof", "s_dead", "select", "insert", "commit"}
        \/ sch.called)
       => WindowCount(sch.conv, 16 * (sch.last + 1)) >= 16
  /\ WindowCount(ConvA, 0) < 16
       => (sumlog = <<>> /\ LtmCount(ConvA) = 0 /\ ProfileCount = 0 /\ ~sch.called)

\* C20 witness: a tick found the trigger true on a first window holding 15
\* entries and ended without a Summarizer call and without an entry written
C20_Witness ==
  /\ PassDone(ConvA)
  /\ (sch.latest \div 16) > sch.last + 1
  /\ WindowCount(ConvA, 0) = 15
  /\ sumlog = <<>>
  /\ LtmCount(ConvA) = 0
  /\ ProfileCount = 0

-----------------------------------------------------------------------------
(* The batch and the cursor, over RaceSpec *)

\* the list of indices idxs has one entry for each index of [start, start + 15]
\* and no other entry
IsWindow(idxs, start) ==
  /\ Len(idxs) = 16
  /\ \A x \in start..(start + 15) : \E i \in 1..Len(idxs) : idxs[i] = x

\* C21: the batch passed to the Summarizer for the LTM entry of index k is
\* exactly the 16 STM entries of memory_index 16k..16k+15, one per index and
\* none outside the window; a tick writes at most one LTM entry per conversation
C21_BatchIsWindow ==
  [][ /\ pc'[Sched] = "s_sumltm" => IsWindow(sch'.batch, sch'.start)
      /\ \A i \in 1..Len(db'["ltm"]) :
           \E j \in 1..Len(sumlog') : /\ sumlog'[j].kind = "ltm"
                                      /\ sumlog'[j].id = db'["ltm"][i].id
                                      /\ sumlog'[j].start = 16 * db'["ltm"][i].idx
      /\ (Len(sumlog') > Len(sumlog) /\ sumlog'[Len(sumlog')].kind = "ltm") => ~sch.called
    ]_vars

\* the highest memory_index stored for conversation c in the table, -1 if none
StoredMax(tbl, c) ==
  LET idxs == {tbl[i].idx : i \in {k \in 1..Len(tbl) : tbl[k].conv = c}} IN
  IF idxs = {} THEN -1 ELSE CHOOSE m \in idxs : \A x \in idxs : x <= m

\* C22: the cursor the scheduler reads each cycle is the maximum index:
\* latest_stm_index is the highest memory_index of the conversation's STM
\* entries and last_ltm_index the highest of its LTM entries, -1 when there
\* is none
C22_CursorIsMax ==
  [][ /\ (pc[Sched] = "s_stm" /\ pc'[Sched] = "s_ltm")
           => sch'.latest = StoredMax(db["stm"], sch.conv)
      /\ (pc[Sched] = "s_ltm" /\ pc'[Sched] # "s_ltm")
           => sch'.last = StoredMax(db["ltm"], LtmConv(sch.conv))
    ]_vars

-----------------------------------------------------------------------------
(* Serialization, over MsgSpec *)

\* C15: for every Message m of each tier, Message.from_dict(m.to_dict()) and
\* deserialize(serialize(m)) equal m in id, name, content, role, url, metadata,
\* timestamp and type
C15_RoundTrip ==
  /\ ser.step \in {"back", "json", "done"} => \A a \in Attrs : ser.m1[a] = ser.m[a]
  /\ ser.step = "done" => \A a \in Attrs : ser.m2[a] = ser.m[a]


-----------------------------------------------------------------------------
(* clear, over ClearSpec *)

\* C16: clear(tier) removes every entry of that tier of the store's
\* conversation and nothing else; clear() removes every entry of the three
\* tiers of that conversation; the entries of other conversations, and for
\* clear(tier) the other tiers of the same conversation, are left as they were.
C16_ClearExact ==
  \A conv \in StoreConvs, type \in Tiers \cup {NoType} :
    LET after == ClearTables(db, conv, type)
        hit   == IF type = NoType THEN Tiers ELSE {type}
    IN  \A t \in Tiers :
          IF t \in hit
          THEN /\ \A i \in 1..Len(after[t]) : after[t][i].conv # conv
               /\ after[t] = SelectSeq(db[t], LAMBDA r : r.conv # conv)
               /\ Len(after[t]) = Len(db[t]) - Len(RowsOf(db[t], conv))
               /\ \A c \in StoreConvs \ {conv} : RowsOf(after[t], c) = RowsOf(db[t], c)
          ELSE after[t] = db[t]

\* C16 witness: conversation a got an stm and an ltm entry and conversation b
\* an stm entry; after clear("stm") on a, a has no stm entry, its ltm entry
\* is there and so is the stm entry of b.
C16_Witness ==
  /\ pc["p1"] = "idle"
  /\ \E x \in assigned : x[1] = "stm" /\ x[2] = ConvA
  /\ Len(RowsOf(db["stm"], ConvA)) = 0
  /\ Len(RowsOf(db["ltm"], ConvA)) = 1
  /\ Len(RowsOf(db["stm"], ConvB)) = 1


-----------------------------------------------------------------------------
(* The bucket of an upload, over BucketSpec *)

\* C26: a bucket passed to upload_hub is used unchanged; without one the
\* bucket is the name field of the message if it declares one, else the owner
\* identity, else the hub identity override MEMBASE_ID
C26_BucketDefault ==
  ser.step = "put" =>
    ser.task_bucket =
      IF ser.bucket # None THEN ser.bucket
      ELSE IF ser.msg.has_name THEN ser.msg.name
      ELSE IF ser.owner # "" THEN Str(ser.owner)
      ELSE Str(ser.membase_id)


-----------------------------------------------------------------------------
(* Termination of add, over AddLiveSpec *)

\* C27: with auto_upload_to_hub on, every add call eventually returns to its
\* caller, also when the hub upload of its message fails
C27_AddReturns == \A p \in FgProcs : InAdd(p) ~> pc[p] = "idle"


-----------------------------------------------------------------------------
(* Termination of stop, over StopLiveSpec *)

\* C28: stop() eventually returns: once the stop flag is set the scheduler
\* thread ends, whatever the outcome (success, Summarizer failure, hub upload
\* failure) of the steps of the cycle in progress
C28_StopReturns == stop ~> (pc[Sched] \in {"s_done", "s_dead"} /\ pc["p1"] = "idle")


-----------------------------------------------------------------------------
(* Indices after sequential adds, over AddOnlySpec *)

\* C29: after any sequence of sequential add calls with no delete, add calls
\* of a message whose id is already stored included, the memory_index values
\* stored for a (conversation, tier) are exactly 0..N-1, N the number of
\* entries stored for it
C29_IndicesDense ==
  \A conv \in StoreConvs, t \in Tiers :
    LET rows == SelectSeq(db[t], LAMBDA r : r.conv = conv) IN
    {rows[i].idx : i \in 1..Len(rows)} = 0..(Len(rows) - 1)


-----------------------------------------------------------------------------
(* Reading back what add stored, over ReadBackSpec *)

\* C30: every record committed by add can be read back by get: the content
\* stored has exactly the keys Message.from_dict requires (the eight
\* attributes and __module__, __name__), and get returns a Message of the
\* same id, name, content, role, url, timestamp and type whose metadata
\* carries the conversation id and the memory_index assigned
C30_ReadBack ==
  /\ ser.step \in {"stored", "read"}
       => DOMAIN ser.content = Attrs \cup {"__module__", "__name__"}
  /\ ser.step = "read"
       => /\ \A a \in Attrs \ {"metadata"} : ser.got[a] = ser.m[a]
          /\ ser.got["metadata"][1] = "metadata"
          /\ ser.got["metadata"][3] = ser.conv
          /\ ser.got["metadata"][4] = ser.idx


-----------------------------------------------------------------------------
(* The profile conversation, over TwoConvSpec *)

\* the calls of the Profile summarizer, oldest first
ProfileLog == SelectSeq(sumlog, LAMBDA e : e.kind = "profile")

\* C31: every Profile entry of the account is in the one conversation
\* "membase_profile_" + account whatever source conversation triggered the
\* cycle, and the previous profile handed to the Profile summarizer is the
\* Profile entry committed last (none at the first call), also when that
\* entry was made from another source conversation
C31_ProfileChain ==
  /\ \A i \in 1..Len(db["profile"]) :
       db["profile"][i].conv = <<"membase_profile_", membase_account>>
  /\ \A j \in 1..Len(ProfileLog) :
       ProfileLog[j].prev = IF j = 1 THEN 0 ELSE ProfileLog[j - 1].id


-----------------------------------------------------------------------------
(* The frame of add, over AddOnlySpec *)

\* C32: an add to a conversation leaves the entries of every other
\* conversation as they were, also when the id of the message added is that
\* of a message stored under another conversation of the same tier
C32_AddLeavesOthers ==
  [][ \A c \in StoreConvs :
        (InAdd("p1") /\ call["p1"].conv = c)
          => \A t \in Tiers : \A o \in StoreConvs \ {c} :
               RowsOf(db'[t], o) = RowsOf(db[t], o)
    ]_vars


-----------------------------------------------------------------------------
(* LTM entries against full STM batches, over TwoConvSpec (no delete, no clear) *)

\* the number of full batches of stms_per_ltm entries below the newest STM index
FullBatches(c) == (StoredMax(db["stm"], c) + 1) \div stms_per_ltm

-----------------------------------------------------------------------------
(* A deleted entry of the next window, over DeleteSpec *)

\* an stm entry of the stored window [0, 15] has been deleted
WindowEntryDeleted ==
  \E n \in 1..stms_per_ltm : \A i \in 1..Len(db["stm"]) : db["stm"][i].id # n

\* C34: once an stm entry of the next unconsumed window has been deleted, no
\* later tick writes an LTM entry for the conversation, however many stm
\* messages are added afterwards
C34_DeletedEntryStopsLtm ==
  [][ (WindowEntryDeleted /\ LtmCount(ConvA) = 0) => LtmCount(ConvA)' = 0 ]_vars


-----------------------------------------------------------------------------
(* Upload ids, over UploadIdSpec *)

\* C35: no two distinct messages of the account are handed to the hub under
\* the same upload id "<conv>_<index>" (with the prefix of the tier), over
\* any sequence of add and delete
C35_UploadIdUnique ==
  \A h1, h2 \in handed :
    HubMsgId(h1.tier, h1.conv, h1.idx) = HubMsgId(h2.tier, h2.conv, h2.idx)
      => h1.id = h2.id


-----------------------------------------------------------------------------
(* BufferedMemory.get, over BufGetSpec *)

Min(a, b) == IF a <= b THEN a ELSE b

\* C37: get(recent_n=k) with no filter returns exactly the last min(k, size)
\* messages in insertion order for every k >= 0, the empty list for k = 0,
\* and get() returns all messages in insertion order
C37_GetRecent ==
  (ser # NoSer /\ ser.step = "get" /\ ser.filter = "None")
    => IF ser.recent_n = NoRecent
       THEN ser.result = ser.self
       ELSE ser.result = LastN(ser.self, Min(ser.recent_n, Len(ser.self)))


-----------------------------------------------------------------------------
(* The list and the map of a BufferedMemory, over BufSpec *)

\* C38: after any sequence of add, delete, load and clear the ids of the
\* stored messages are pairwise different (an add of a message whose id is
\* present is skipped), and _message_map has exactly the ids of the stored
\* messages as keys and maps each to the current position of its message
C38_MapMatchesList ==
  /\ \A i, j \in 1..Len(messages) : messages[i].id = messages[j].id => i = j
  /\ DOMAIN message_map = {messages[i].id : i \in 1..Len(messages)}
  /\ \A i \in 1..Len(messages) : message_map[messages[i].id] = i - 1

\* two messages were added (both uploaded), then the first was deleted: the
\* second message is now at position 0
C38_Witness ==
  /\ autoUpload
  /\ nextTask = 3
  /\ nextId = 1
  /\ pc["p1"] = "idle"
  /\ Len(messages) = 1
  /\ messages[1].id = 2
  /\ message_map[2] = 0


-----------------------------------------------------------------------------
(* Loading from the hub, over LoadSpec *)

\* the get_conversation calls made for conversation c
GetsOf(c) == Cardinality({i \in 1..Len(gets) : gets[i] = c})

\* C36: a message loaded from the hub is never handed to upload_hub, and for
\* one LTMemory the hub is asked at most once for a conversation id
C36_LoadedNotUploadedOnce ==
  /\ \A h \in handed : h.id \notin RemoteIds
  /\ \A c \in StoreConvs : GetsOf(c) <= 1

====
